---------------------------- MODULE Spec2Model ----------------------------
(***************************************************************************)
(* A model of the GitIt server: the in-memory TTL cache (cache.ts), the    *)
(* ZIP ingestion (file-utils.ts), the GitHub ingestion (github-api.ts),    *)
(* the representative-file sampler (openai-api.ts) and the                 *)
(* /api/analyze/github route (routes.ts).                                  *)
(*                                                                         *)
(* Strings are sequences of character codes, so that toLowerCase,          *)
(* endsWith, includes, startsWith and the regular expressions of the       *)
(* source are computed on characters.  File contents are run-length        *)
(* encoded: a content is a sequence of runs <<block, count>>, the block    *)
(* (a string) repeated count times, so that a 500 KiB content is a value   *)
(* of the model.                                                           *)
(***************************************************************************)
EXTENDS Integers, Sequences, FiniteSets, TLC

VARIABLES
  now,          \* Date.now(), in milliseconds
  cache,        \* MemoryCache.cache: key -> [value, expiry]
  cacheRet,     \* the last cache operation and what it returned
  lastSet,      \* history: per key, the last set not followed by a delete
  samplerFiles, \* selectRepresentativeFiles: its argument `files`
  samplerOut,   \* selectRepresentativeFiles: the returned selectedFiles
  samplerPc,    \* "start" before the call, "done" after it
  source,       \* history: the files the archive or the repository was made of
  archive,      \* extractFilesFromZip: the uploaded archive (zipBuffer)
  zipOut,       \* extractFilesFromZip: what the call returned or threw
  zipPc,        \* "start" before the call, "done" after it
  remote,       \* api.github.com: the response to each contents request
  token,        \* githubAPI.token, the field of the exported singleton
  req,          \* the requests in progress: request id -> where it stands
  calls,        \* history: the remote and LLM calls made, in order
  storage       \* storage: the saved analyses and the next id

cacheVars == <<now, cache, cacheRet, lastSet>>
samplerVars == <<samplerFiles, samplerOut, samplerPc>>
zipVars == <<archive, zipOut, zipPc>>
githubVars == <<remote, token, req, calls>>

vars == <<cacheVars, samplerVars, source, zipVars, githubVars, storage>>

\* What the cache's own calls leave alone.
nonCacheVars == <<samplerVars, source, zipVars, githubVars, storage>>
\* What a call of the sampler leaves alone.
nonSamplerVars == <<cacheVars, source, zipVars, githubVars, storage>>
\* What a call of extractFilesFromZip leaves alone.
nonZipVars == <<cacheVars, samplerVars, source, githubVars, storage>>
\* What a step of a GitHub request leaves alone.
nonGitHubVars == <<cacheVars, samplerVars, source, zipVars, storage>>

\* No archive uploaded, and no call made yet.
NoArchive == [valid |-> FALSE, entries |-> << >>]
NoResult == [status |-> "none"]
\* undefined, where a string is expected: no string of characters.
NoString == <<-1>>
\* undefined, where a content is expected.
NoText == << <<NoString, 0>> >>
NoRemote == [tree |-> << >>, blobs |-> << >>]

\* The parts of the server a specification does not exercise stay as the
\* constructors leave them.
SamplerIdle == samplerFiles = << >> /\ samplerOut = << >> /\ samplerPc = "idle"
ZipIdle == archive = NoArchive /\ zipOut = NoResult /\ zipPc = "idle"
GitHubIdle == remote = NoRemote /\ token = NoString /\ req = << >> /\ calls = << >>
NoStorage == [kind |-> "mem", analyses |-> << >>, nextId |-> 1, explanations |-> << >>]

-----------------------------------------------------------------------------
(* Characters and strings *)

AsciiPrintable ==
  <<" ","!","dquote","#","$","%","&","'","(",")","*","+",",","-",".","/",
    "0","1","2","3","4","5","6","7","8","9",":",";","<","=",">","?","@",
    "A","B","C","D","E","F","G","H","I","J","K","L","M","N","O","P","Q",
    "R","S","T","U","V","W","X","Y","Z","[","backslash","]","^","_","backtick",
    "a","b","c","d","e","f","g","h","i","j","k","l","m","n","o","p","q",
    "r","s","t","u","v","w","x","y","z","{","|","}","~">>

\* The character code of a printable ASCII character (" " is 32).
Ord(c) == 31 + (CHOOSE i \in 1..Len(AsciiPrintable) : AsciiPrintable[i] = c)

\* A string literal, written as a tuple of characters.
Str(t) == [i \in 1..Len(t) |-> Ord(t[i])]

\* String.prototype.toLowerCase, on ASCII.
toLowerCase(s) ==
  [i \in 1..Len(s) |-> IF s[i] >= 65 /\ s[i] <= 90 THEN s[i] + 32 ELSE s[i]]

startsWith(s, p) ==
  /\ Len(p) <= Len(s)
  /\ \A i \in 1..Len(p) : s[i] = p[i]

endsWith(s, p) ==
  /\ Len(p) <= Len(s)
  /\ \A i \in 1..Len(p) : s[Len(s) - Len(p) + i] = p[i]

\* Whether p occurs in s at offset k (0-based).
occursAt(s, p, k) ==
  /\ k + Len(p) <= Len(s)
  /\ \A i \in 1..Len(p) : s[k + i] = p[i]

includes(s, p) == \E k \in 0..(Len(s) - Len(p)) : occursAt(s, p, k)

Slash == Ord("/")
Dot == Ord(".")

-----------------------------------------------------------------------------
(* MemoryCache *)

Missing == "undefined"

\* Mutant: an entry expires at its expiry instant (>= for >).
MemoryCache_get_value_ExpiresEarly(c, key, t) ==
  IF key \notin DOMAIN c \/ t >= c[key].expiry THEN Missing ELSE c[key].value

\* Mutant: an entry is no hit at its expiry instant (>= for >).
MemoryCache_get_hit_ExpiresEarly(c, key, t) ==
  ~(key \notin DOMAIN c \/ t >= c[key].expiry)

\* Whether get returns an item: it is there and not expired.
MemoryCache_get_hit(c, key, t) == ~(key \notin DOMAIN c \/ t > c[key].expiry)

MemoryCache_get_value(c, key, t) ==
  IF key \notin DOMAIN c \/ t > c[key].expiry THEN Missing ELSE c[key].value

\* The store after get: an expired item is deleted.
MemoryCache_get_store(c, key, t) ==
  IF key \in DOMAIN c /\ t > c[key].expiry
    THEN [k \in DOMAIN c \ {key} |-> c[k]]
    ELSE c

\* Mutant: a set that leaves an existing entry as it is.
MemoryCache_set_KeepsExisting(c, key, value, ttlSeconds, t) ==
  [k \in DOMAIN c \cup {key} |->
     IF k = key /\ key \notin DOMAIN c
       THEN [value |-> value, expiry |-> t + ttlSeconds * 1000]
       ELSE c[k]]

MemoryCache_set(c, key, value, ttlSeconds, t) ==
  [k \in DOMAIN c \cup {key} |->
     IF k = key THEN [value |-> value, expiry |-> t + ttlSeconds * 1000]
                ELSE c[k]]

MemoryCache_delete(c, key) == [k \in DOMAIN c \ {key} |-> c[k]]

MemoryCache_clear == << >>

-----------------------------------------------------------------------------
(* The cache on its own: set, get, delete and clear calls under an          *)
(* advancing clock.                                                         *)

MaxSeconds == 2

CacheKeys == {"k1", "k2"}
CacheValues == {"v", "w"}
TtlChoices == {0, 1, 2}

\* The clock readings Date.now() takes: each whole second, and 1 ms after it.
ClockReadings == {s * 1000 + e : s \in 0..MaxSeconds, e \in {0, 1}}

NoSet == [t |-> -1]

InitCache ==
  /\ now = 0
  /\ cache = << >>
  /\ cacheRet = [op |-> "none"]
  /\ lastSet = [k \in CacheKeys |-> NoSet]
  /\ samplerFiles = << >>
  /\ samplerOut = << >>
  /\ samplerPc = "idle"
  /\ source = << >>
  /\ ZipIdle
  /\ GitHubIdle
  /\ storage = NoStorage

Tick ==
  /\ \E t \in ClockReadings : t > now /\ now' = t
  /\ UNCHANGED <<cache, cacheRet, lastSet, nonCacheVars>>

CacheSet ==
  \E k \in CacheKeys, v \in CacheValues, ttl \in TtlChoices :
    /\ cache' = MemoryCache_set(cache, k, v, ttl, now)
    /\ cacheRet' = [op |-> "set", key |-> k, at |-> now]
    /\ lastSet' = [lastSet EXCEPT ![k] = [t |-> now, v |-> v, ttl |-> ttl]]
    /\ UNCHANGED <<now, nonCacheVars>>

CacheGet ==
  \E k \in CacheKeys :
    /\ cacheRet' = [op |-> "get", key |-> k, at |-> now,
                    value |-> MemoryCache_get_value(cache, k, now)]
    /\ cache' = MemoryCache_get_store(cache, k, now)
    /\ UNCHANGED <<now, lastSet, nonCacheVars>>

CacheDelete ==
  \E k \in CacheKeys :
    /\ cache' = MemoryCache_delete(cache, k)
    /\ cacheRet' = [op |-> "delete", key |-> k, at |-> now]
    /\ lastSet' = [lastSet EXCEPT ![k] = NoSet]
    /\ UNCHANGED <<now, nonCacheVars>>

CacheClear ==
  /\ cache' = MemoryCache_clear
  /\ cacheRet' = [op |-> "clear", at |-> now]
  /\ lastSet' = [k \in CacheKeys |-> NoSet]
  /\ UNCHANGED <<now, nonCacheVars>>

NextCache == Tick \/ CacheSet \/ CacheGet \/ CacheDelete \/ CacheClear

SpecCache == InitCache /\ [][NextCache]_vars

-----------------------------------------------------------------------------
(* C1: after set(k, v, ttl) at time t with no later set or delete of k,     *)
(* get(k) at time now returns v when now <= t + ttl*1000, and returns       *)
(* missing and leaves k out of the store when now > t + ttl*1000.           *)
C1_GetWithinTtl ==
  cacheRet.op = "get" =>
    LET k == cacheRet.key
        s == lastSet[k]
    IN  s # NoSet =>
          IF cacheRet.at <= s.t + s.ttl * 1000
            THEN cacheRet.value = s.v
            ELSE cacheRet.value = Missing /\ k \notin DOMAIN cache

\* A get of a key set 1 s ago with a ttl of 1 s is a hit at the expiry
\* instant, and a get of the same entry 1 ms later is a miss.
C1_Witness ==
  /\ cacheRet.op = "get"
  /\ lastSet[cacheRet.key] # NoSet
  /\ cacheRet.at > lastSet[cacheRet.key].t + lastSet[cacheRet.key].ttl * 1000
  /\ lastSet[cacheRet.key].ttl > 0
  /\ cacheRet.value = Missing

-----------------------------------------------------------------------------
(* File contents: a sequence of runs <<block, count>>.                      *)

RECURSIVE contentLength(_)
\* String.prototype.length of a content.
contentLength(c) ==
  IF c = << >> THEN 0
  ELSE Len(c[1][1]) * c[1][2] + contentLength(Tail(c))

\* A short content written as one string.
Text(s) == IF Len(s) = 0 THEN << >> ELSE << <<s, 1>> >>

\* The string s repeated n times.
Repeat(s, n) == IF Len(s) = 0 \/ n = 0 THEN << >> ELSE << <<s, n>> >>

\* JavaScript truthiness of a string, or of undefined.
Truthy(c) == c # NoText /\ contentLength(c) > 0

RECURSIVE substring0(_, _)
\* String.prototype.substring(0, n).
substring0(c, n) ==
  IF c = << >> \/ n <= 0 THEN << >>
  ELSE LET block == c[1][1]
           runLen == Len(block) * c[1][2]
       IN  IF runLen <= n
             THEN <<c[1]>> \o substring0(Tail(c), n - runLen)
             ELSE LET whole == n \div Len(block)
                      part == n % Len(block)
                  IN  (IF whole > 0 THEN << <<block, whole>> >> ELSE << >>)
                      \o (IF part > 0 THEN << <<SubSeq(block, 1, part), 1>> >>
                                      ELSE << >>)

-----------------------------------------------------------------------------
(* A JavaScript object used as an ordered map (Record<string, string>): a   *)
(* sequence of [path, content] in insertion order.  Object.keys lists       *)
(* string keys in insertion order; no path of the model is an array index.  *)

ObjKeys(o) == [i \in 1..Len(o) |-> o[i].path]

ObjHas(o, p) == \E i \in 1..Len(o) : o[i].path = p

\* o[p]: undefined for a key the object does not have.
ObjGet(o, p) ==
  IF ObjHas(o, p) THEN o[CHOOSE i \in 1..Len(o) : o[i].path = p].content
                  ELSE NoText

\* o[p] = v: an existing key keeps its place.
ObjSet(o, p, v) ==
  IF ObjHas(o, p)
    THEN [i \in 1..Len(o) |-> IF o[i].path = p THEN [path |-> p, content |-> v]
                                                ELSE o[i]]
    ELSE Append(o, [path |-> p, content |-> v])

-----------------------------------------------------------------------------
(* file-utils.ts: shouldSkipFile, shouldIncludeFile, extractFilesFromZip *)

skipExtensions ==
  {Str(<<".","j","p","g">>),
   Str(<<".","j","p","e","g">>),
   Str(<<".","p","n","g">>),
   Str(<<".","g","i","f">>),
   Str(<<".","s","v","g">>),
   Str(<<".","i","c","o">>),
   Str(<<".","w","e","b","p">>),
   Str(<<".","m","p","4">>),
   Str(<<".","w","e","b","m">>),
   Str(<<".","o","g","g">>),
   Str(<<".","m","p","3">>),
   Str(<<".","w","a","v">>),
   Str(<<".","p","d","f">>),
   Str(<<".","z","i","p">>),
   Str(<<".","r","a","r">>),
   Str(<<".","7","z">>),
   Str(<<".","t","a","r">>),
   Str(<<".","g","z">>),
   Str(<<".","w","o","f","f">>),
   Str(<<".","w","o","f","f","2">>),
   Str(<<".","e","o","t">>),
   Str(<<".","t","t","f">>),
   Str(<<".","e","x","e">>),
   Str(<<".","d","l","l">>),
   Str(<<".","s","o">>),
   Str(<<".","d","y","l","i","b">>),
   Str(<<".","c","l","a","s","s">>)}

skipDirectories ==
  {Str(<<"n","o","d","e","_","m","o","d","u","l","e","s">>),
   Str(<<"d","i","s","t">>),
   Str(<<"b","u","i","l","d">>),
   Str(<<"t","a","r","g","e","t">>),
   Str(<<"o","u","t">>),
   Str(<<".","g","i","t">>),
   Str(<<".","i","d","e","a">>),
   Str(<<".","v","s","c","o","d","e">>),
   Str(<<".","n","e","x","t">>),
   Str(<<".","v","e","r","c","e","l">>),
   Str(<<"v","e","n","d","o","r">>),
   Str(<<"b","o","w","e","r","_","c","o","m","p","o","n","e","n","t","s">>),
   Str(<<"j","s","p","m","_","p","a","c","k","a","g","e","s">>),
   Str(<<"_","_","p","y","c","a","c","h","e","_","_">>),
   Str(<<"v","e","n","v">>),
   Str(<<"e","n","v">>),
   Str(<<".","e","n","v">>),
   Str(<<".","v","e","n","v">>)}

shouldSkipFile(filePath) ==
  \/ \E ext \in skipExtensions : endsWith(toLowerCase(filePath), ext)
  \/ \E dir \in skipDirectories :
       \/ includes(filePath, <<Slash>> \o dir \o <<Slash>>)
       \/ startsWith(filePath, dir \o <<Slash>>)
       \/ filePath = dir

\* A character matched by /[\x20-\x7E\t\n\r]/.
IsPrintable(ch) == (ch >= 32 /\ ch <= 126) \/ ch \in {9, 10, 13}

RECURSIVE nonPrintableLength(_)
\* content.replace(/[\x20-\x7E\t\n\r]/g, '').length
nonPrintableLength(c) ==
  IF c = << >> THEN 0
  ELSE Cardinality({i \in 1..Len(c[1][1]) : ~IsPrintable(c[1][1][i])}) * c[1][2]
       + nonPrintableLength(Tail(c))

MAX_FILE_SIZE == 500 * 1024

\* nonPrintableChars.length > content.length * 0.1, compared in tenths.
shouldIncludeFile(content) ==
  /\ contentLength(content) # 0
  /\ ~(contentLength(content) > MAX_FILE_SIZE)
  /\ ~(nonPrintableLength(content) * 10 > contentLength(content))

RECURSIVE extractEntries(_, _)
\* The loop over Object.entries(zip.files): a directory, a path that
\* shouldSkipFile rejects, an entry whose async('text') throws and a content
\* that shouldIncludeFile rejects are passed over.
extractEntries(entries, files) ==
  IF entries = << >> THEN files
  ELSE LET e == Head(entries)
       IN  extractEntries(
             Tail(entries),
             IF e.dir THEN files
             ELSE IF shouldSkipFile(e.path) THEN files
             ELSE IF e.corrupt THEN files
             ELSE IF shouldIncludeFile(e.text) THEN ObjSet(files, e.path, e.text)
             ELSE files)

\* `Failed to process zip file: ${error.message}`, with JSZip's message for
\* bytes that are no archive.
ZipFailureMessage ==
  Str(<<"F","a","i","l","e","d"," ","t","o"," ","p","r","o","c","e","s","s"," ","z","i","p"," ","f","i","l","e",":"," ","C","a","n","'","t"," ","f","i","n","d"," ","e","n","d"," ","o","f"," ","c","e","n","t","r","a","l"," ","d","i","r","e","c","t","o","r","y">>)

\* An extraction without the try around async('text').
extractFilesFromZip_AbortsOnCorrupt(zip) ==
  IF zip.valid /\ \A i \in 1..Len(zip.entries) : ~zip.entries[i].corrupt
    THEN [status |-> "ok", files |-> extractEntries(zip.entries, << >>)]
    ELSE [status |-> "error", message |-> ZipFailureMessage]

\* Mutant: bytes that are no archive give the empty mapping.
extractFilesFromZip_EmptyOnInvalid(zip) ==
  [status |-> "ok",
   files |-> IF zip.valid THEN extractEntries(zip.entries, << >>) ELSE << >>]

\* JSZip.loadAsync throws for bytes that are no archive; the outer catch
\* rethrows it as "Failed to process zip file".
extractFilesFromZip(zip) ==
  IF zip.valid
    THEN [status |-> "ok", files |-> extractEntries(zip.entries, << >>)]
    ELSE [status |-> "error", message |-> ZipFailureMessage]

-----------------------------------------------------------------------------
(* github-api.ts: GitHubAPI.  A remote call is one step of a request: the   *)
(* request record q holds where the call chain stands, and q.emit the       *)
(* remote calls the step issued, each with the token getHeaders() read.     *)

\* Buffer.from(s, 'base64'): the value of a character of the alphabet, -1
\* for any other character (white space and padding among them).
unbase64(ch) ==
  IF ch >= 65 /\ ch <= 90 THEN ch - 65
  ELSE IF ch >= 97 /\ ch <= 122 THEN ch - 71
  ELSE IF ch >= 48 /\ ch <= 57 THEN ch + 4
  ELSE IF ch = 43 \/ ch = 45 THEN 62
  ELSE IF ch = 47 \/ ch = 95 THEN 63
  ELSE -1

Pad == Ord("=")

\* The characters that are decoded: those before the first "=", without
\* the characters outside the alphabet.
base64Digits(s) ==
  LET pads == {i \in 1..Len(s) : s[i] = Pad}
      stop == IF pads = {} THEN Len(s) + 1
              ELSE CHOOSE i \in pads : \A j \in pads : i <= j
  IN  SelectSeq(SubSeq(s, 1, stop - 1), LAMBDA ch : unbase64(ch) >= 0)

\* Four digits give three bytes, a rest of three gives two, of two one.
base64Bytes(d) ==
  LET nBytes == (Len(d) \div 4) * 3
                  + (CASE Len(d) % 4 = 3 -> 2 [] Len(d) % 4 = 2 -> 1 [] OTHER -> 0)
      v(i) == IF i <= Len(d) THEN unbase64(d[i]) ELSE 0
      byte(k) ==
        LET g == 4 * ((k - 1) \div 3)
        IN  CASE (k - 1) % 3 = 0 -> v(g + 1) * 4 + (v(g + 2) \div 16)
              [] (k - 1) % 3 = 1 -> (v(g + 2) % 16) * 16 + (v(g + 3) \div 4)
              [] OTHER -> (v(g + 3) % 4) * 64 + v(g + 4)
  IN  [k \in 1..nBytes |-> byte(k)]

\* toString('utf-8') of bytes below 128 (the contents of the model are ASCII).
base64DecodeString(s) == base64Bytes(base64Digits(s))

RECURSIVE flatten(_)
\* A content written out as one string.
flatten(c) ==
  IF c = << >> THEN << >>
  ELSE IF c[1][2] = 0 THEN flatten(Tail(c))
  ELSE c[1][1] \o flatten(<< <<c[1][1], c[1][2] - 1>> >> \o Tail(c))

\* A block that decodes on its own wherever it stands: whole groups of four
\* digits and no padding.
base64Aligned(block) ==
  /\ \A i \in 1..Len(block) : block[i] # Pad
  /\ Len(base64Digits(block)) % 4 = 0

\* Buffer.from(data.content, 'base64').toString('utf-8') of a content.
base64Decode(c) ==
  IF \A i \in 1..Len(c) : base64Aligned(c[i][1]) \/ (i = Len(c) /\ c[i][2] = 1)
    THEN LET runs == [i \in 1..Len(c) |-> <<base64DecodeString(c[i][1]), c[i][2]>>]
         IN  SelectSeq(runs, LAMBDA r : Len(r[1]) > 0)
    ELSE Text(base64DecodeString(flatten(c)))

MAX_FILES == 100

RECURSIVE decimal(_)
\* A non-negative integer in decimal, as template literals print it.
decimal(n) == IF n < 10 THEN <<48 + n>> ELSE decimal(n \div 10) \o <<48 + (n % 10)>>

GitHubErrorPrefix == Str(<<"G","i","t","H","u","b"," ","A","P","I"," ","e","r","r","o","r",":"," ">>)
GitHubErrorSep == Str(<<" ","-"," ">>)
NoContentMessage == Str(<<"F","i","l","e"," ","c","o","n","t","e","n","t"," ","o","r"," ","e","n","c","o","d","i","n","g"," ","n","o","t"," ","p","r","o","v","i","d","e","d">>)

\* `GitHub API error: ${response.status} - ${await response.text()}`
GitHubErrorMessage(response) ==
  GitHubErrorPrefix \o decimal(response.status) \o GitHubErrorSep \o response.body

NotFoundBody == Str(<<"N","o","t"," ","F","o","u","n","d">>)
NotFound == [ok |-> FALSE, status |-> 404, body |-> NotFoundBody]

\* The response to GET /repos/{owner}/{repo}/contents/{path} for a directory.
RemoteListing(repo, path) ==
  IF path \in DOMAIN repo.tree THEN repo.tree[path] ELSE NotFound

\* The response to GET /repos/{owner}/{repo}/contents/{path} for a file.
RemoteBlob(repo, path) ==
  IF path \in DOMAIN repo.blobs THEN repo.blobs[path] ELSE NotFound

\* getFileContent after its fetch: the decoded content, or the error thrown.
getFileContent(response) ==
  IF ~response.ok
    THEN [status |-> "error", message |-> GitHubErrorMessage(response)]
  ELSE IF Truthy(response.content) /\ response.encoding = "base64"
    THEN [status |-> "ok", value |-> base64Decode(response.content)]
  ELSE [status |-> "error", message |-> NoContentMessage]

binaryExtensions ==
  {Str(<<".","j","p","g">>),
   Str(<<".","j","p","e","g">>),
   Str(<<".","p","n","g">>),
   Str(<<".","g","i","f">>),
   Str(<<".","s","v","g">>),
   Str(<<".","i","c","o">>),
   Str(<<".","w","e","b","p">>),
   Str(<<".","m","p","4">>),
   Str(<<".","w","e","b","m">>),
   Str(<<".","o","g","g">>),
   Str(<<".","m","p","3">>),
   Str(<<".","w","a","v">>),
   Str(<<".","p","d","f">>),
   Str(<<".","z","i","p">>),
   Str(<<".","r","a","r">>),
   Str(<<".","7","z">>),
   Str(<<".","t","a","r">>),
   Str(<<".","g","z">>),
   Str(<<".","w","o","f","f">>),
   Str(<<".","w","o","f","f","2">>),
   Str(<<".","e","o","t">>),
   Str(<<".","t","t","f">>),
   Str(<<".","e","x","e">>),
   Str(<<".","d","l","l">>),
   Str(<<".","s","o">>),
   Str(<<".","d","y","l","i","b">>)}

skipDirs ==
  {Str(<<"n","o","d","e","_","m","o","d","u","l","e","s","/">>),
   Str(<<".","g","i","t","/">>),
   Str(<<"d","i","s","t","/">>),
   Str(<<"b","u","i","l","d","/">>)}

\* The predicate of files.filter in fetchRepositoryFiles.
fetchFilter(file) ==
  /\ ~\E ext \in binaryExtensions : endsWith(toLowerCase(file.name), ext)
  /\ ~\E dir \in skipDirs : includes(file.path, dir)

NoPending == [kind |-> "none"]

\* A request that has not started.
NewRequest(op, args) ==
  [op |-> op, args |-> args, pc |-> "start",
   stack |-> << >>, pending |-> NoPending,
   repo |-> args.repo,
   filteredFiles |-> << >>, idx |-> 1, result |-> << >>, fileCounter |-> 0,
   outcome |-> NoResult, selected |-> << >>, analysis |-> << >>,
   response |-> NoResult, emit |-> << >>,
   startedAt |-> -1, doneAt |-> -1, llm |-> << >>,
   before |-> NoResult, listFailures |-> 0]

\* fetch(url, {headers: this.getHeaders()}): the call leaves with the token
\* the singleton holds at this moment.
IssueCall(q, kind, path, tok, pc) ==
  [q EXCEPT !.pc = pc,
            !.pending = [kind |-> kind, path |-> path],
            !.emit = Append(@, [kind |-> kind, repo |-> q.repo, path |-> path,
                                token |-> tok])]

\* fetchRepositoryFiles returns or throws.
FetchReturn(q, outcome) ==
  [q EXCEPT !.pc = "fetched", !.pending = NoPending, !.outcome = outcome]

\* A loop that tests the ceiling one file late.
FetchLoop_PastCeiling(q, tok) ==
  IF q.idx > Len(q.filteredFiles) \/ q.fileCounter > MAX_FILES
    THEN FetchReturn(q, [status |-> "ok", files |-> q.result])
    ELSE IssueCall(q, "content", q.filteredFiles[q.idx].path, tok, "fetching")

\* for (const file of filteredFiles): up to the next await, or to the return.
FetchLoop(q, tok) ==
  IF q.idx > Len(q.filteredFiles) \/ q.fileCounter >= MAX_FILES
    THEN FetchReturn(q, [status |-> "ok", files |-> q.result])
    ELSE IssueCall(q, "content", q.filteredFiles[q.idx].path, tok, "fetching")

\* The loop body after getFileContent settled.
FetchLoopBody(q, got) ==
  IF got.status = "error" THEN [q EXCEPT !.idx = @ + 1]
  ELSE IF contentLength(got.value) > 500 * 1024 THEN [q EXCEPT !.idx = @ + 1]
  ELSE [q EXCEPT !.result = ObjSet(@, q.filteredFiles[q.idx].path, got.value),
                 !.fileCounter = @ + 1,
                 !.idx = @ + 1]

\* Mutant: the files are fetched from the last listed to the first.
ListingReturned_LastFirst(q, files, tok) ==
  FetchLoop([q EXCEPT !.stack = << >>,
                      !.filteredFiles =
                         SelectSeq([i \in 1..Len(files) |-> files[Len(files) + 1 - i]],
                                   fetchFilter),
                      !.idx = 1, !.result = << >>, !.fileCounter = 0],
            tok)

\* fetchRepositoryFiles once listRepositoryContents returned `files`.
ListingReturned(q, files, tok) ==
  FetchLoop([q EXCEPT !.stack = << >>,
                      !.filteredFiles = SelectSeq(files, fetchFilter),
                      !.idx = 1, !.result = << >>, !.fileCounter = 0],
            tok)

RECURSIVE listLoop(_, _)
\* for (const file of files) in the innermost listRepositoryContents, up to
\* the next await: the entries before the first 'dir' are pushed, and the
\* 'dir' is listed by a recursive call; at the end of the loop the call
\* returns to its caller, which pushes the returned files and goes on with
\* its own loop.
listLoop(q, tok) ==
  LET n == Len(q.stack)
      top == q.stack[n]
      dirs == {i \in 1..Len(top.files) : top.files[i].type = "dir"}
      k == IF dirs = {} THEN Len(top.files) + 1
           ELSE CHOOSE i \in dirs : \A j \in dirs : i <= j
      pushed == top.result \o SubSeq(top.files, 1, k - 1)
  IN  IF k > Len(top.files)
        THEN IF n = 1
               THEN ListingReturned(q, pushed, tok)
               ELSE listLoop(
                      [q EXCEPT !.stack =
                         SubSeq(q.stack, 1, n - 2)
                           \o << [q.stack[n - 1] EXCEPT !.result = @ \o pushed] >>],
                      tok)
        ELSE IssueCall(
               [q EXCEPT !.stack =
                  SubSeq(q.stack, 1, n - 1)
                    \o << [files |-> SubSeq(top.files, k + 1, Len(top.files)),
                           result |-> pushed],
                          [files |-> << >>, result |-> << >>] >>],
               "list", top.files[k].path, tok, "listing")

\* fetchRepositoryFiles(owner, repo) up to its first await.
fetchRepositoryFiles(q, tok) ==
  IssueCall([q EXCEPT !.stack = << [files |-> << >>, result |-> << >>] >>],
            "list", << >>, tok, "listing")

\* Mutant: a listing that fails counts as an empty directory.
OnListResponse_SkipsFailedListing(q, response, tok) ==
  LET files == IF ~response.ok THEN << >>
               ELSE IF response.isArray THEN response.entries
               ELSE <<response.entry>>
      n == Len(q.stack)
  IN  listLoop([q EXCEPT !.stack[n] = [files |-> files, result |-> << >>]], tok)

\* listRepositoryContents after its fetch: a response that is not ok throws
\* through every caller; a single object counts as a list of one.
OnListResponse(q, response, tok) ==
  IF ~response.ok
    THEN FetchReturn([q EXCEPT !.stack = << >>],
                     [status |-> "error", message |-> GitHubErrorMessage(response)])
    ELSE LET files == IF response.isArray THEN response.entries
                                          ELSE <<response.entry>>
             n == Len(q.stack)
         IN  listLoop([q EXCEPT !.stack[n] = [files |-> files, result |-> << >>]],
                      tok)

\* A loop without the try around getFileContent.
OnContentResponse_AbortsOnFailure(q, response, tok) ==
  IF getFileContent(response).status = "error"
    THEN FetchReturn(q, getFileContent(response))
    ELSE FetchLoop(FetchLoopBody(q, getFileContent(response)), tok)

\* fetchRepositoryFiles after getFileContent settled for filteredFiles[idx].
OnContentResponse(q, response, tok) ==
  FetchLoop(FetchLoopBody(q, getFileContent(response)), tok)

-----------------------------------------------------------------------------
(* OpenAIAPI.selectRepresentativeFiles *)

\* A regular expression that is an alternation of literals, with flag i.
MatchesAnyI(p, literals) ==
  LET q == toLowerCase(p) IN \E w \in literals : includes(q, w)

\* /(^|\/)(app|index|main)\.(js|ts|py|java|rb)$/i
EntryPointNames == {Str(<<"a","p","p">>),
  Str(<<"i","n","d","e","x">>),
  Str(<<"m","a","i","n">>)}
EntryPointExts == {Str(<<"j","s">>),
  Str(<<"t","s">>),
  Str(<<"p","y">>),
  Str(<<"j","a","v","a">>),
  Str(<<"r","b">>)}
MatchesEntryPoint(p) ==
  \E n \in EntryPointNames, e \in EntryPointExts :
    LET w == n \o <<Dot>> \o e
        q == toLowerCase(p)
    IN  q = w \/ endsWith(q, <<Slash>> \o w)

\* /readme\.md/i
Pattern1 ==
  {Str(<<"r","e","a","d","m","e",".","m","d">>)}

\* /package\.json|composer\.json|pyproject\.toml/i
Pattern2 ==
  {Str(<<"p","a","c","k","a","g","e",".","j","s","o","n">>),
   Str(<<"c","o","m","p","o","s","e","r",".","j","s","o","n">>),
   Str(<<"p","y","p","r","o","j","e","c","t",".","t","o","m","l">>)}

\* /\.env\.example/i
Pattern4 ==
  {Str(<<".","e","n","v",".","e","x","a","m","p","l","e">>)}

\* /docker-compose\.yml|dockerfile/i
Pattern5 ==
  {Str(<<"d","o","c","k","e","r","-","c","o","m","p","o","s","e",".","y","m","l">>),
   Str(<<"d","o","c","k","e","r","f","i","l","e">>)}

\* /schema\.(sql|js|ts|prisma)/i
Pattern6 ==
  {Str(<<"s","c","h","e","m","a",".","s","q","l">>),
   Str(<<"s","c","h","e","m","a",".","j","s">>),
   Str(<<"s","c","h","e","m","a",".","t","s">>),
   Str(<<"s","c","h","e","m","a",".","p","r","i","s","m","a">>)}

\* /models\/|entities\/|dto\//i
Pattern7 ==
  {Str(<<"m","o","d","e","l","s","/">>),
   Str(<<"e","n","t","i","t","i","e","s","/">>),
   Str(<<"d","t","o","/">>)}

\* /controllers\/|routes\/|api\//i
Pattern8 ==
  {Str(<<"c","o","n","t","r","o","l","l","e","r","s","/">>),
   Str(<<"r","o","u","t","e","s","/">>),
   Str(<<"a","p","i","/">>)}

\* /components\/|views\//i
Pattern9 ==
  {Str(<<"c","o","m","p","o","n","e","n","t","s","/">>),
   Str(<<"v","i","e","w","s","/">>)}

\* /utils\/|helpers\//i
Pattern10 ==
  {Str(<<"u","t","i","l","s","/">>),
   Str(<<"h","e","l","p","e","r","s","/">>)}

\* /tests\/|spec\//i
Pattern11 ==
  {Str(<<"t","e","s","t","s","/">>),
   Str(<<"s","p","e","c","/">>)}

\* priorityPatterns[i].test(p)
PatternTest(i, p) ==
  CASE i = 1 -> MatchesAnyI(p, Pattern1)
    [] i = 2 -> MatchesAnyI(p, Pattern2)
    [] i = 3 -> MatchesEntryPoint(p)
    [] i = 4 -> MatchesAnyI(p, Pattern4)
    [] i = 5 -> MatchesAnyI(p, Pattern5)
    [] i = 6 -> MatchesAnyI(p, Pattern6)
    [] i = 7 -> MatchesAnyI(p, Pattern7)
    [] i = 8 -> MatchesAnyI(p, Pattern8)
    [] i = 9 -> MatchesAnyI(p, Pattern9)
    [] i = 10 -> MatchesAnyI(p, Pattern10)
    [] i = 11 -> MatchesAnyI(p, Pattern11)

NumPriorityPatterns == 11

MAX_SELECTED_FILES == 15

MAX_CHARS_PER_FILE == 10000

TruncationMarker ==
  <<10>> \o Str(<<".",".","."," ","[","f","i","l","e"," ","t","r","u","n","c","a","t","e","d"," ","d","u","e"," ","t","o"," ","s","i","z","e","]">>)

\* path.dirname (POSIX): the path up to its last slash that is followed by a
\* character other than a slash; "." when there is none.
dirname(p) ==
  LET ends == {i \in 2..Len(p) :
                 p[i] = Slash /\ \E j \in (i+1)..Len(p) : p[j] # Slash}
      top(S) == CHOOSE i \in S : \A j \in S : j <= i
  IN  IF Len(p) = 0 THEN <<Dot>>
      ELSE IF ends = {} THEN (IF p[1] = Slash THEN <<Slash>> ELSE <<Dot>>)
      ELSE IF p[1] = Slash /\ top(ends) = 2 THEN <<Slash, Slash>>
      ELSE SubSeq(p, 1, top(ends) - 1)

\* filePaths.forEach(filePath => ...) for one pattern: every path that the
\* pattern matches and that is not selected is added, in the order of
\* filePaths (the keys are distinct, so no addition changes the test of a
\* later path; a path selected with an empty content is set again in place).
addMatches(files, selected, pi) ==
  selected \o SelectSeq(files, LAMBDA f : /\ PatternTest(pi, f.path)
                                           /\ ~Truthy(ObjGet(selected, f.path))
                                           /\ ~ObjHas(selected, f.path))

\* Mutant: a pattern adds only its first match that is not yet selected.
addFirstMatch(files, selected, pi) ==
  LET added == addMatches(files, selected, pi)
  IN  SubSeq(added, 1, IF Len(added) > Len(selected) THEN Len(selected) + 1
                                                     ELSE Len(selected))

RECURSIVE firstPassFrom(_, _, _)
\* priorityPatterns.forEach(pattern => ...) from pattern pi on.
firstPassFrom(files, selected, pi) ==
  IF pi > NumPriorityPatterns THEN selected
  ELSE firstPassFrom(files, addMatches(files, selected, pi), pi + 1)

RECURSIVE firstMatchOnlyFrom(_, _, _)
firstMatchOnlyFrom(files, selected, pi) ==
  IF pi > NumPriorityPatterns THEN selected
  ELSE firstMatchOnlyFrom(files, addFirstMatch(files, selected, pi), pi + 1)

firstPass_FirstMatchOnly(files) == firstMatchOnlyFrom(files, << >>, 1)

firstPass(files) == firstPassFrom(files, << >>, 1)

\* filePaths.filter(path => !selectedFiles[path])
remainingFiles(files, selected) ==
  SelectSeq(ObjKeys(files), LAMBDA p : ~Truthy(ObjGet(selected, p)))

RECURSIVE groupByDir(_, _)
\* remainingFiles.reduce(...): [dir, paths] in first-seen order of dir.
groupByDir(paths, acc) ==
  IF paths = << >> THEN acc
  ELSE LET dir == dirname(Head(paths))
           known == \E i \in 1..Len(acc) : acc[i].dir = dir
       IN  groupByDir(
             Tail(paths),
             IF known
               THEN [i \in 1..Len(acc) |->
                       IF acc[i].dir = dir
                         THEN [acc[i] EXCEPT !.paths = Append(@, Head(paths))]
                         ELSE acc[i]]
               ELSE Append(acc, [dir |-> dir, paths |-> <<Head(paths)>>]))

RECURSIVE takeOnePerDir(_, _, _)
\* for (const dir of dirs) { if (count >= MAX_SELECTED_FILES) break; ... }
takeOnePerDir(files, selected, groups) ==
  IF groups = << >> THEN selected
  ELSE IF Len(selected) >= MAX_SELECTED_FILES THEN selected
  ELSE LET g == Head(groups)
       IN  takeOnePerDir(
             files,
             IF Len(g.paths) > 0
               THEN ObjSet(selected, g.paths[1], ObjGet(files, g.paths[1]))
               ELSE selected,
             Tail(groups))

secondPass(files, selected) ==
  IF Len(selected) < MAX_SELECTED_FILES
    THEN takeOnePerDir(files, selected,
                       groupByDir(remainingFiles(files, selected), << >>))
    ELSE selected

\* Mutant: a content of exactly MAX_CHARS_PER_FILE characters is cut too.
truncate_AtLimitToo(content) ==
  IF contentLength(content) >= MAX_CHARS_PER_FILE
    THEN substring0(content, MAX_CHARS_PER_FILE) \o Text(TruncationMarker)
    ELSE content

truncate(content) ==
  IF contentLength(content) > MAX_CHARS_PER_FILE
    THEN substring0(content, MAX_CHARS_PER_FILE) \o Text(TruncationMarker)
    ELSE content

truncateAll(selected) ==
  [i \in 1..Len(selected) |->
     [path |-> selected[i].path, content |-> truncate(selected[i].content)]]

selectRepresentativeFiles(files) ==
  truncateAll(secondPass(files, firstPass(files)))

-----------------------------------------------------------------------------
(* The sampler on its own: selectRepresentativeFiles applied to a           *)
(* FileMapping drawn from SamplerInputs.                                    *)

MaxSmallFiles == 3
MaxGenerated == 17

SmallContent == Text(Str(<<"h","e","l","l","o">>))
LongContent == Repeat(Str(<<"a","b">>), 6000)
\* 12,000 characters in blocks of three, 10,000 characters, and 10,001.
ThirdsContent == Repeat(Str(<<"a","b","c">>), 4000)
LimitContent == Repeat(Str(<<"a","b">>), 5000)
OverLimitContent == Repeat(Str(<<"a","b","c">>), 3333) \o Text(Str(<<"x","y">>))

\* Paths of small mappings, each with its content.
SamplerVocabulary ==
  { [path |-> Str(<<"R","E","A","D","M","E",".","m","d">>), content |-> SmallContent],
    [path |-> Str(<<"s","r","c","/","u","t","i","l","/","h","e","l","p","e","r","s",".","j","s">>), content |-> SmallContent],
    [path |-> Str(<<"s","r","c","/","u","t","i","l","s","/","f","m","t",".","j","s">>), content |-> LimitContent],
    [path |-> Str(<<"s","r","c","/","i","n","d","e","x",".","t","s">>), content |-> ThirdsContent],
    [path |-> Str(<<"l","i","b","/","x",".","g","o">>), content |-> LongContent],
    [path |-> Str(<<"l","i","b","/","y",".","g","o">>), content |-> OverLimitContent] }

\* The sequences of at most n distinct elements of S.
RECURSIVE DistinctSeqs(_, _)
DistinctSeqs(S, n) ==
  IF n = 0 THEN { << >> }
  ELSE LET shorter == DistinctSeqs(S, n - 1)
       IN  shorter \cup
           { Append(q, x) : q \in {r \in shorter : Len(r) = n - 1}, x \in S }

DistinctPaths(q) == \A i, j \in 1..Len(q) : q[i].path = q[j].path => i = j

SmallMappings ==
  {q \in DistinctSeqs(SamplerVocabulary, MaxSmallFiles) : DistinctPaths(q)}

\* Two decimal digits.
Digits(n) == <<48 + ((n \div 10) % 10), 48 + (n % 10)>>

ViewsPrefix == Str(<<"v","i","e","w","s","/","c">>)
UtilsPrefix == Str(<<"u","t","i","l","s","/","u">>)
FillerDirPrefix == Str(<<"p">>)
FillerNamePrefix == Str(<<"/","f">>)
TsExt == Str(<<".","t","s">>)
GoExt == Str(<<".","g","o">>)

\* views/cNN.ts for an odd i, a match of /components\/|views\//i, and
\* utils/uNN.ts for an even i, a match of /utils\/|helpers\//i.
GeneratedPriorityFile(i) ==
  [path |-> (IF i % 2 = 1 THEN ViewsPrefix ELSE UtilsPrefix)
              \o Digits(i) \o TsExt,
   content |-> SmallContent]

\* pDD/fNN.go, which matches no pattern, in directory DD = j % nDirs.
GeneratedFillerFile(j, nDirs) ==
  [path |-> FillerDirPrefix \o Digits(j % nDirs) \o FillerNamePrefix
              \o Digits(j) \o GoExt,
   content |-> SmallContent]

GeneratedMapping(nPrio, nFill, nDirs, prioFirst) ==
  LET prio == [i \in 1..nPrio |-> GeneratedPriorityFile(i)]
      fill == [j \in 1..nFill |-> GeneratedFillerFile(j, nDirs)]
  IN  IF prioFirst THEN prio \o fill ELSE fill \o prio

\* nPrio priority matches and nFill fillers, at most MaxGenerated files, the
\* fillers in one directory, in two, or each in its own.
GeneratedMappings ==
  { GeneratedMapping(n[1], n[2], nDirs, prioFirst) :
      n \in {m \in (0..MaxGenerated) \X (0..MaxGenerated) :
               m[1] + m[2] <= MaxGenerated},
      nDirs \in {1, 2, MaxGenerated + 1}, prioFirst \in BOOLEAN }

SamplerInputs == SmallMappings \cup GeneratedMappings

InitSampler ==
  /\ samplerFiles \in SamplerInputs
  /\ samplerOut = << >>
  /\ samplerPc = "start"
  /\ now = 0
  /\ cache = << >>
  /\ cacheRet = [op |-> "none"]
  /\ lastSet = [k \in CacheKeys |-> NoSet]
  /\ source = << >>
  /\ ZipIdle
  /\ GitHubIdle
  /\ storage = NoStorage

SamplerCall ==
  /\ samplerPc = "start"
  /\ samplerOut' = selectRepresentativeFiles(samplerFiles)
  /\ samplerPc' = "done"
  /\ UNCHANGED <<samplerFiles, nonSamplerVars>>

NextSampler == SamplerCall

SpecSampler == InitSampler /\ [][NextSampler]_vars

-----------------------------------------------------------------------------
\* The first pattern p matches; NumPriorityPatterns + 1 for a filler.
PatternRank(p) ==
  LET matching == {i \in 1..NumPriorityPatterns : PatternTest(i, p)}
  IN  IF matching = {} THEN NumPriorityPatterns + 1
      ELSE CHOOSE i \in matching : \A j \in matching : i <= j

IsPriority(p) == PatternRank(p) <= NumPriorityPatterns

(* C2: the sampler returns at most MAX_SELECTED_FILES (15) files, also when *)
(* more than 15 paths match priority patterns.                              *)
C2_AtMostCeiling ==
  samplerPc = "done" => Len(samplerOut) <= MAX_SELECTED_FILES

(* C3: selection respects priority order: when a priority match is left    *)
(* out of the selected set, no path of a later pattern and no filler is in  *)
(* it; and the selected set lists its paths by first matching pattern, all  *)
(* fillers after all priority matches.                                      *)
C3_PriorityOrder ==
  samplerPc = "done" =>
    LET inRank == [i \in 1..Len(samplerFiles) |-> PatternRank(samplerFiles[i].path)]
        outRank == [k \in 1..Len(samplerOut) |-> PatternRank(samplerOut[k].path)]
    IN  /\ \A i \in 1..Len(samplerFiles) :
             (inRank[i] <= NumPriorityPatterns
                /\ ~ObjHas(samplerOut, samplerFiles[i].path)) =>
               \A k \in 1..Len(samplerOut) : outRank[k] <= inRank[i]
        /\ \A k \in 1..(Len(samplerOut) - 1) : outRank[k] <= outRank[k + 1]

\* A selection holding priority matches of two patterns and a filler, from a
\* mapping that lists the filler first and has a filler that was not selected.
C3_Witness ==
  /\ samplerPc = "done"
  /\ Len(samplerFiles) > Len(samplerOut)
  /\ Len(samplerOut) >= 3
  /\ ~IsPriority(samplerFiles[1].path)
  /\ PatternRank(samplerOut[1].path) < PatternRank(samplerOut[2].path)
  /\ IsPriority(samplerOut[2].path)
  /\ ~IsPriority(samplerOut[Len(samplerOut)].path)

RECURSIVE charAt(_, _)
\* The k-th character of a content (k from 1).
charAt(c, k) ==
  LET block == c[1][1]
      runLen == Len(block) * c[1][2]
  IN  IF k <= runLen THEN block[((k - 1) % Len(block)) + 1]
      ELSE charAt(Tail(c), k - runLen)

\* The positions at which a truncated content is compared with the original:
\* the first and the last ten of the first 10,000, and every thousandth.
ComparedPositions ==
  (1..10) \cup {k * 1000 : k \in 1..10} \cup (9991..10000)

\* C18: for every selected file: if its content is longer than 10,000
\* characters, the selected content is exactly its first 10,000 characters
\* followed by the truncation marker (a newline and "... [file truncated due
\* to size]"); if its content has 10,000 characters or fewer, the selected
\* content equals the original content.
C18_TruncatedToLimit ==
  samplerPc = "done" =>
    \A i \in 1..Len(samplerOut) :
      LET original == ObjGet(samplerFiles, samplerOut[i].path)
          selected == samplerOut[i].content
      IN  IF contentLength(original) > 10000
            THEN /\ contentLength(selected) = 10000 + Len(TruncationMarker)
                 /\ \A k \in ComparedPositions :
                      charAt(selected, k) = charAt(original, k)
                 /\ \A j \in 1..Len(TruncationMarker) :
                      charAt(selected, 10000 + j) = TruncationMarker[j]
                 /\ Len(TruncationMarker) = 33
                 /\ TruncationMarker[1] = 10
            ELSE selected = original

\* A selection with a file of 10,000 characters, kept whole, and a file of
\* 10,001 characters, cut.
C18_Witness ==
  /\ samplerPc = "done"
  /\ \E i, j \in 1..Len(samplerOut) :
       /\ contentLength(ObjGet(samplerFiles, samplerOut[i].path)) = 10000
       /\ samplerOut[i].content = ObjGet(samplerFiles, samplerOut[i].path)
       /\ contentLength(ObjGet(samplerFiles, samplerOut[j].path)) = 10001
       /\ contentLength(samplerOut[j].content) = 10033

-----------------------------------------------------------------------------
(* The two ingestion sources.  A source file is a path, its text, the       *)
(* base64 text the contents API sends for it, and what goes wrong when it   *)
(* is read; an archive and a repository are made of source files.           *)

HelloText == Text(Str(<<"h","e","l","l","o">>))
HelloB64 == Text(Str(<<"a","G","V","s","b","G","8","=">>))
\* 48 characters; the contents API breaks its base64 into lines of 60.
WrappedText == Text(Str(<<"T","h","e"," ","q","u","i","c","k"," ","b","r","o","w","n"," ","f","o","x"," ","j","u","m","p","s"," ","o","v","e","r"," ","t","h","e"," ","l","a","z","y"," ","d","o","g"," ","0","1","2","3">>))
WrappedB64 == Text(Str(<<"V","G","h","l","I","H","F","1","a","W","N","r","I","G","J","y","b","3","d","u","I","G","Z","v","e","C","B","q","d","W","1","w","c","y","B","v","d","m","V","y","I","H","R","o","Z","S","B","s","Y","X","p","5","I","G","R","v","Z","y","A","w">>) \o <<10>> \o Str(<<"M","T","I","z">>) \o <<10>>)
\* 500 * 1024 characters, and one more.
EdgeText == << <<Str(<<"a","a","a">>), 170666>>, <<Str(<<"a","a">>), 1>> >>
EdgeB64 == << <<Str(<<"Y","W","F","h">>), 170666>>, <<Str(<<"Y","W","E","=">>), 1>> >>
BigText == << <<Str(<<"b","b","b">>), 170667>> >>
BigB64 == << <<Str(<<"Y","m","J","i">>), 170667>> >>
\* Three NUL characters.
BinaryText == Text(<<0, 0, 0>>)
BinaryB64 == Text(Str(<<"A","A","A","A">>))
\* Ten characters, one and two of them NUL.
TenthText == Text(Str(<<"a","b","c","d","e","f","g","h","i">>) \o <<0>>)
TenthB64 == Text(Str(<<"Y","W","J","j","Z","G","V","m","Z","2","h","p","A","A","=","=">>))
FifthText == Text(Str(<<"a","b","c","d","e","f","g","h">>) \o <<0>> \o <<0>>)
FifthB64 == Text(Str(<<"Y","W","J","j","Z","G","V","m","Z","2","g","A","A","A","=","=">>))

SourceFile(path, text, b64, fault) ==
  [path |-> path, text |-> text, b64 |-> b64, fault |-> fault]

Plain(path) == SourceFile(path, HelloText, HelloB64, "none")

RECURSIVE SplitFrom(_, _)
\* The slash-separated segments of p from position i on.
SplitFrom(p, i) ==
  LET slashes == {k \in i..Len(p) : p[k] = Slash}
  IN  IF slashes = {} THEN <<SubSeq(p, i, Len(p))>>
      ELSE LET k == CHOOSE x \in slashes : \A y \in slashes : x <= y
           IN  <<SubSeq(p, i, k - 1)>> \o SplitFrom(p, k + 1)

Segments(p) == SplitFrom(p, 1)

\* The directories above a path, outermost first ("" is the repository root).
Ancestors(p) ==
  LET slashes == {k \in 1..Len(p) : p[k] = Slash}
  IN  {<< >>} \cup {SubSeq(p, 1, k - 1) : k \in slashes}

IsUnder(d, p) == d = << >> \/ startsWith(p, d \o <<Slash>>)

\* The entry of directory d that path p lies in or is.
ChildEntry(d, p) ==
  LET from == IF d = << >> THEN 1 ELSE Len(d) + 2
      slashes == {k \in from..Len(p) : p[k] = Slash}
      to == IF slashes = {} THEN Len(p)
            ELSE (CHOOSE x \in slashes : \A y \in slashes : x <= y) - 1
  IN  [name |-> SubSeq(p, from, to),
       path |-> SubSeq(p, 1, to),
       type |-> IF to = Len(p) THEN "file" ELSE "dir"]

\* The entries of directory d, each once, in the order the files come.
ChildEntries(d, files) ==
  LET under == SelectSeq(files, LAMBDA f : IsUnder(d, f.path))
      entry == [i \in 1..Len(under) |-> ChildEntry(d, under[i].path)]
      firsts == {i \in 1..Len(under) :
                   \A j \in 1..(i - 1) : entry[j].path # entry[i].path}
  IN  [k \in 1..Cardinality(firsts) |->
         entry[CHOOSE i \in firsts : Cardinality({j \in firsts : j < i}) = k - 1]]

Http(status, body) == [ok |-> FALSE, status |-> status, body |-> body]

ForbiddenBody == Str(<<"A","P","I"," ","r","a","t","e"," ","l","i","m","i","t"," ","e","x","c","e","e","d","e","d"," ","f","o","r"," ","1","0",".","0",".","0",".","1",".">>)
ServerErrorBody == Str(<<"S","e","r","v","e","r"," ","E","r","r","o","r">>)

\* What the contents API answers for a file.
BlobResponse(f) ==
  CASE f.fault = "http404" -> NotFound
    [] f.fault = "http403" -> Http(403, ForbiddenBody)
    [] f.fault = "http500" -> Http(500, ServerErrorBody)
    [] f.fault = "noContent" -> [ok |-> TRUE, content |-> NoText, encoding |-> "base64"]
    [] f.fault = "encodingNone" -> [ok |-> TRUE, content |-> << >>, encoding |-> "none"]
    [] f.fault = "encodingOther" -> [ok |-> TRUE, content |-> f.text, encoding |-> "utf-8"]
    [] OTHER -> [ok |-> TRUE, content |-> f.b64, encoding |-> "base64"]

\* The repository holding these files: a listing per directory, a blob per file.
RepositoryOf(files) ==
  LET paths == {files[i].path : i \in 1..Len(files)}
      dirs == UNION {Ancestors(p) : p \in paths}
      fileAt(p) == files[CHOOSE i \in 1..Len(files) : files[i].path = p]
  IN  [tree |-> [d \in dirs |->
                   [ok |-> TRUE, isArray |-> TRUE,
                    entries |-> ChildEntries(d, files)]],
       blobs |-> [p \in paths |-> BlobResponse(fileAt(p))]]

RECURSIVE ArchiveEntries(_, _)
\* The entries of the archive holding these files: a directory entry before
\* the first file of each directory, then the file.
ArchiveEntries(files, seen) ==
  IF files = << >> THEN << >>
  ELSE LET f == Head(files)
           segs == Segments(f.path)
           parent == IF Len(segs) = 1 THEN << >>
                     ELSE SubSeq(f.path, 1, Len(f.path) - Len(segs[Len(segs)]))
           dirEntry == [dir |-> TRUE, path |-> parent, corrupt |-> FALSE, text |-> << >>]
           fileEntry == [dir |-> FALSE, path |-> f.path,
                         corrupt |-> f.fault = "corrupt", text |-> f.text]
       IN  IF parent = << >> \/ parent \in seen
             THEN <<fileEntry>> \o ArchiveEntries(Tail(files), seen)
             ELSE <<dirEntry, fileEntry>>
                    \o ArchiveEntries(Tail(files), seen \cup {parent})

ArchiveOf(files) == [valid |-> TRUE, entries |-> ArchiveEntries(files, {})]

-----------------------------------------------------------------------------
(* routes.ts: POST /api/analyze/github.  The handler runs from one await    *)
(* to the next; a step of a request is what runs between two awaits.        *)

\* String.prototype.trim, on the white space of ASCII.
IsSpace(ch) == ch \in {9, 10, 11, 12, 13, 32}

trim(s) ==
  LET solid == {i \in 1..Len(s) : ~IsSpace(s[i])}
  IN  IF solid = {} THEN << >>
      ELSE SubSeq(s, CHOOSE i \in solid : \A j \in solid : i <= j,
                     CHOOSE i \in solid : \A j \in solid : i >= j)

\* s.replace(/\/+$/, '')
stripTrailingSlashes(s) ==
  LET solid == {i \in 1..Len(s) : s[i] # Slash}
  IN  IF solid = {} THEN << >>
      ELSE SubSeq(s, 1, CHOOSE i \in solid : \A j \in solid : i >= j)

DotGit == Str(<<".","g","i","t">>)

\* s.replace(/\.git$/, '')
stripDotGit(s) ==
  IF endsWith(s, DotGit) THEN SubSeq(s, 1, Len(s) - Len(DotGit)) ELSE s

\* repositoryUrl.trim().replace(/\/+$/, '').replace(/\.git$/, '')
normalizeRepoUrl(repositoryUrl) ==
  stripDotGit(stripTrailingSlashes(trim(repositoryUrl)))

\* The character of a base64 digit.
base64Char(v) ==
  IF v < 26 THEN 65 + v
  ELSE IF v < 52 THEN 71 + v
  ELSE IF v < 62 THEN v - 4
  ELSE IF v = 62 THEN 43
  ELSE 47

\* Buffer.from(s).toString('base64') of an ASCII string.
base64Encode(s) ==
  LET b(i) == IF i <= Len(s) THEN s[i] ELSE 0
      groups == (Len(s) + 2) \div 3
      digit(g, k) ==
        LET x == b(3 * g - 2)
            y == b(3 * g - 1)
            z == b(3 * g)
        IN  CASE k = 1 -> base64Char(x \div 4)
              [] k = 2 -> base64Char((x % 4) * 16 + (y \div 16))
              [] k = 3 -> IF 3 * g - 1 > Len(s) THEN Pad
                          ELSE base64Char((y % 16) * 4 + (z \div 64))
              [] OTHER -> IF 3 * g > Len(s) THEN Pad ELSE base64Char(z % 64)
  IN  [i \in 1..(4 * groups) |-> digit(((i - 1) \div 4) + 1, ((i - 1) % 4) + 1)]

AnalysisKeyPrefix == Str(<<"a","n","a","l","y","s","i","s",":","g","i","t","h","u","b",":">>)

\* `analysis:github:${Buffer.from(normalizedRepoUrl).toString('base64')}`
analysisCacheKey(normalizedRepoUrl) == AnalysisKeyPrefix \o base64Encode(normalizedRepoUrl)

BearerPrefix == Str(<<"B","e","a","r","e","r"," ">>)

\* header.replace('Bearer ', ''): the first occurrence is removed.
stripBearer(header) ==
  LET at == {k \in 0..(Len(header) - Len(BearerPrefix)) : occursAt(header, BearerPrefix, k)}
  IN  IF at = {} THEN header
      ELSE LET k == CHOOSE x \in at : \A y \in at : x <= y
           IN  SubSeq(header, 1, k) \o SubSeq(header, k + Len(BearerPrefix) + 1, Len(header))

\* The token the handler sets: from the Authorization header, else from the
\* signed-in user's githubAccessToken, else the one the singleton holds.
tokenAfterRequest(args, tok) ==
  IF args.authorization # NoString /\ Len(args.authorization) > 0
    THEN stripBearer(args.authorization)
  ELSE IF args.user.authenticated /\ args.user.githubAccessToken # NoString
    THEN args.user.githubAccessToken
  ELSE tok

GitHubHost == Str(<<"g","i","t","h","u","b",".","c","o","m","/">>)

\* url.match(/github\.com\/([^\/]+)\/([^\/]+)/i): owner and repo of the
\* leftmost match, or no match.
matchRepositoryUrl(url) ==
  LET lower == toLowerCase(url)
      nextSlash(i) ==
        LET slashes == {k \in i..Len(url) : url[k] = Slash}
        IN  IF slashes = {} THEN Len(url) + 1
            ELSE CHOOSE x \in slashes : \A y \in slashes : x <= y
      \* k: the characters before the match
      matches(k) ==
        /\ occursAt(lower, GitHubHost, k)
        /\ LET o == k + Len(GitHubHost) + 1
               s == nextSlash(o)
           IN  s > o /\ s <= Len(url) /\ nextSlash(s + 1) > s + 1
      at == {k \in 0..(Len(url) - Len(GitHubHost)) : matches(k)}
  IN  IF at = {} THEN [matched |-> FALSE]
      ELSE LET k == CHOOSE x \in at : \A y \in at : x <= y
               o == k + Len(GitHubHost) + 1
               s == nextSlash(o)
           IN  [matched |-> TRUE,
                owner |-> SubSeq(url, o, s - 1),
                repo |-> stripDotGit(SubSeq(url, s + 1, nextSlash(s + 1) - 1))]

InvalidUrlMessage == Str(<<"I","n","v","a","l","i","d"," ","G","i","t","H","u","b"," ","r","e","p","o","s","i","t","o","r","y"," ","U","R","L">>)
RateLimitWords == Str(<<"r","a","t","e"," ","l","i","m","i","t">>)
Forbidden403 == Str(<<"4","0","3">>)

\* res.status(...).json(...): the request is answered.
Respond(q, response) ==
  [q EXCEPT !.pc = "done", !.pending = NoPending, !.response = response]

\* catch (error) of the handler.
routeCatch(q, errorMessage) ==
  Respond(q, IF includes(errorMessage, RateLimitWords) \/ includes(errorMessage, Forbidden403)
               THEN [status |-> 429,
                     message |-> "GitHub API rate limit exceeded. Please try again later.",
                     details |-> errorMessage]
               ELSE [status |-> 500,
                     message |-> "Failed to analyze GitHub repository",
                     details |-> errorMessage])

\* The handler after await githubAPI.fetchRepositoryFilesFromUrl(...): an
\* error goes to the catch, an empty mapping is answered with 400, and
\* otherwise analyzeRepository runs up to its first LLM call.
routeAfterFetch(q, tok) ==
  IF q.outcome.status = "error" THEN routeCatch(q, q.outcome.message)
  ELSE IF Len(q.outcome.files) = 0
    THEN Respond(q, [status |-> 400, message |-> "No analyzable files found"])
  ELSE IssueCall([q EXCEPT !.selected = selectRepresentativeFiles(q.outcome.files)],
                 "technicalAnalysis", << >>, NoString, "analyzing")

\* What runs when fetchRepositoryFiles has returned or thrown: the caller
\* that awaited it.
resume(q, tok) ==
  IF q.op = "route" /\ q.pc = "fetched" THEN routeAfterFetch(q, tok) ELSE q

\* The handler from its start to its first await or its answer, given what
\* cache.get returned (found: not undefined) and the token the singleton
\* holds after setToken.
routeStart(q, cachedAnalysis, tok) ==
  IF ~q.args.valid
    THEN Respond(q, [status |-> 400, message |-> "Invalid request data"])
  ELSE IF q.args.repositoryUrl = NoString \/ Len(q.args.repositoryUrl) = 0
    THEN Respond(q, [status |-> 400, message |-> "Repository URL is required"])
  ELSE IF cachedAnalysis.found
    THEN Respond(q, [status |-> 200, body |-> cachedAnalysis.value, cached |-> TRUE])
  ELSE LET url == normalizeRepoUrl(q.args.repositoryUrl)
           m == matchRepositoryUrl(url)
       IN  IF ~m.matched
             THEN routeCatch(q, InvalidUrlMessage)
             ELSE fetchRepositoryFiles(
                    [q EXCEPT !.repo = m.owner \o <<Slash>> \o m.repo], tok)

\* The cache key of a request that reaches the cache.
routeCacheKey(q) == analysisCacheKey(normalizeRepoUrl(q.args.repositoryUrl))

ReachesCache(q) ==
  /\ q.args.valid
  /\ q.args.repositoryUrl # NoString
  /\ Len(q.args.repositoryUrl) > 0

\* normalizedRepoUrl.split('/').pop()
lastSegment(url) ==
  LET slashes == {k \in 1..Len(url) : url[k] = Slash}
  IN  IF slashes = {} THEN url
      ELSE SubSeq(url, (CHOOSE x \in slashes : \A y \in slashes : x >= y) + 1, Len(url))

DefaultRepoName == Str(<<"R","e","p","o","s","i","t","o","r","y">>)

\* repositoryName || normalizedRepoUrl.split('/').pop() || 'Repository'
actualRepoName(q) ==
  IF Len(q.args.repositoryName) > 0 THEN q.args.repositoryName
  ELSE IF Len(lastSegment(normalizeRepoUrl(q.args.repositoryUrl))) > 0
    THEN lastSegment(normalizeRepoUrl(q.args.repositoryUrl))
  ELSE DefaultRepoName

\* response.choices[0].message.content || ""
contentOrEmpty(content) == IF content = NoText THEN << >> ELSE content

\* The record analyzeRepository returns and the handler hands to
\* storage.saveRepositoryAnalysis, which fills in id and createdAt. A userId
\* of 0 is null: the ids of users start at 1.
analysisRecord(q, userManual) ==
  [repositoryName |-> actualRepoName(q),
   repositoryUrl |-> normalizeRepoUrl(q.args.repositoryUrl),
   technicalAnalysis |-> q.analysis,
   userManual |-> userManual,
   analyzedFiles |-> Len(q.selected),
   totalFiles |-> Len(q.outcome.files),
   id |-> 0,
   analysisSummary |-> Missing,
   createdAt |-> 0,
   userId |-> IF q.args.user.authenticated THEN q.args.user.id ELSE 0]

\* responseData of the handler.
responseData(saved) ==
  [id |-> saved.id,
   repositoryName |-> saved.repositoryName,
   repositoryUrl |-> saved.repositoryUrl,
   technicalAnalysis |-> saved.technicalAnalysis,
   userManual |-> saved.userManual,
   analyzedFiles |-> saved.analyzedFiles,
   totalFiles |-> saved.totalFiles,
   analysisSummary |-> saved.analysisSummary]

-----------------------------------------------------------------------------
(* Ingestion runs: extractFilesFromZip on an archive, fetchRepositoryFiles  *)
(* and getFileContent on a repository.                                      *)

\* Files per archive or repository drawn from the vocabulary.
MaxSourceFiles == 2
\* Files a large repository has beyond MAX_FILES.
MaxExtraFiles == 2

toUpperCase(s) ==
  [i \in 1..Len(s) |-> IF s[i] >= 97 /\ s[i] <= 122 THEN s[i] - 32 ELSE s[i]]

ProbeName == Str(<<"x">>)
ProbeFile == Str(<<"x",".","j","s">>)
SrcDir == Str(<<"s","r","c">>)
MyPrefix == Str(<<"m","y">>)

\* One path per extension of the denylist, in lower and in upper case.
ExtensionProbes ==
  UNION {{ProbeName \o ext, toUpperCase(ProbeName \o ext)} : ext \in skipExtensions}

\* Paths with a name of the directory denylist as the first segment, as an
\* inner segment, as the last segment, as the whole path, and as the end of
\* a longer segment.
DirectoryProbes ==
  UNION {{dir \o <<Slash>> \o ProbeFile,
          SrcDir \o <<Slash>> \o dir \o <<Slash>> \o ProbeFile,
          SrcDir \o <<Slash>> \o dir,
          dir,
          MyPrefix \o dir \o <<Slash>> \o ProbeFile} : dir \in skipDirectories}

ProbeSources == {<<Plain(p)>> : p \in ExtensionProbes \cup DirectoryProbes}

\* Files that read the same from an archive and from a repository.
CommonVocabulary ==
  { Plain(Str(<<"a",".","t","x","t">>)),
    SourceFile(Str(<<"s","r","c","/","m","a","i","n",".","t","s">>), WrappedText, WrappedB64, "none"),
    SourceFile(Str(<<"d","o","c","s","/","b","i","g",".","m","d">>), BigText, BigB64, "none"),
    SourceFile(Str(<<"d","o","c","s","/","e","d","g","e",".","m","d">>), EdgeText, EdgeB64, "none"),
    SourceFile(Str(<<"d","a","t","a",".","b","i","n">>), BinaryText, BinaryB64, "none"),
    SourceFile(Str(<<"t",".","d","a","t">>), TenthText, TenthB64, "none"),
    SourceFile(Str(<<"f",".","d","a","t">>), FifthText, FifthB64, "none"),
    SourceFile(Str(<<"e","m","p","t","y",".","t","x","t">>), << >>, << >>, "none"),
    SourceFile(Str(<<"i","m","g",".","p","n","g">>), BinaryText, BinaryB64, "none"),
    Plain(Str(<<"n","o","d","e","_","m","o","d","u","l","e","s","/","x",".","j","s">>)) }

ZipVocabulary ==
  CommonVocabulary \cup {SourceFile(Str(<<"b","a","d",".","t","x","t">>), HelloText, HelloB64, "corrupt")}

GitHubVocabulary ==
  CommonVocabulary \cup
  { SourceFile(Str(<<"g","o","n","e",".","t","x","t">>), HelloText, HelloB64, "http404"),
    SourceFile(Str(<<"l","i","m",".","t","x","t">>), HelloText, HelloB64, "http403"),
    SourceFile(Str(<<"e","n","c",".","t","x","t">>), HelloText, HelloB64, "encodingOther"),
    SourceFile(Str(<<"n","c",".","t","x","t">>), HelloText, HelloB64, "noContent"),
    SourceFile(Str(<<"h","u","g","e",".","t","x","t">>), HelloText, HelloB64, "encodingNone") }

\* The archive of the round-trip example: a.txt, img.png, node_modules/x.js.
ExampleSource ==
  << Plain(Str(<<"a",".","t","x","t">>)),
     SourceFile(Str(<<"i","m","g",".","p","n","g">>), BinaryText, BinaryB64, "none"),
     Plain(Str(<<"n","o","d","e","_","m","o","d","u","l","e","s","/","x",".","j","s">>)) >>

SourcesFrom(vocabulary) ==
  {q \in DistinctSeqs(vocabulary, MaxSourceFiles) : DistinctPaths(q)}
    \cup {ExampleSource}

LargePrefix == Str(<<"s","r","c","/","f">>)

\* src/f1.ts .. src/fN.ts, the file at position `failing` answering 404.
LargeSource(n, failing) ==
  [i \in 1..n |->
     SourceFile(LargePrefix \o decimal(i) \o TsExt, HelloText, HelloB64,
                IF i = failing THEN "http404" ELSE "none")]

LargeSources ==
  {LargeSource(n, failing) :
     n \in (MAX_FILES - 1)..(MAX_FILES + MaxExtraFiles),
     failing \in {0, 1, MAX_FILES}}

\* A repository one of whose listings fails.
WithListing(repo, d, response) ==
  [repo EXCEPT !.tree = [x \in DOMAIN repo.tree |->
                           IF x = d THEN response ELSE repo.tree[x]]]

FailingListings ==
  {WithListing(RepositoryOf(<<Plain(Str(<<"a",".","t","x","t">>)), Plain(Str(<<"s","r","c","/","a",".","t","s">>))>>), d, response) :
     d \in {<< >>, SrcDir},
     response \in {NotFound, Http(403, ForbiddenBody)}}

CacheIdle ==
  /\ now = 0
  /\ cache = << >>
  /\ cacheRet = [op |-> "none"]
  /\ lastSet = [k \in CacheKeys |-> NoSet]

GitHubNotStarted(op, args) ==
  /\ token = NoString
  /\ req = <<NewRequest(op, args)>>
  /\ calls = << >>

OwnerRepo == Str(<<"o","/","r">>)
NoArgs == [repo |-> OwnerRepo, path |-> << >>]

InitIngest ==
  /\ CacheIdle
  /\ SamplerIdle
  /\ storage = NoStorage
  /\ \/ /\ source \in ProbeSources \cup SourcesFrom(ZipVocabulary)
        /\ archive = ArchiveOf(source)
        /\ zipOut = NoResult
        /\ zipPc = "start"
        /\ GitHubIdle
     \/ /\ source = << >>
        /\ archive = NoArchive
        /\ zipOut = NoResult
        /\ zipPc = "start"
        /\ GitHubIdle
     \/ /\ source \in ProbeSources \cup SourcesFrom(GitHubVocabulary) \cup LargeSources
        /\ remote = RepositoryOf(source)
        /\ GitHubNotStarted("fetchRepositoryFiles", NoArgs)
        /\ ZipIdle
     \/ /\ source \in SourcesFrom(GitHubVocabulary)
        /\ remote = RepositoryOf(source)
        /\ \E i \in 1..Len(source) :
             GitHubNotStarted("getFileContent", [repo |-> OwnerRepo, path |-> source[i].path])
        /\ ZipIdle
     \/ /\ source = << >>
        /\ remote \in FailingListings
        /\ GitHubNotStarted("fetchRepositoryFiles", NoArgs)
        /\ ZipIdle

\* await extractFilesFromZip(zipBuffer)
ZipExtract ==
  /\ zipPc = "start"
  /\ zipOut' = extractFilesFromZip(archive)
  /\ zipPc' = "done"
  /\ UNCHANGED <<archive, nonZipVars>>

\* A step of request r ends: the calls it issued are on their way.
Step(r, q) ==
  /\ req' = [req EXCEPT ![r] =
                [q EXCEPT !.emit = << >>,
                          !.startedAt = IF req[r].pc = "start" THEN now ELSE @,
                          !.before = IF req[r].pc = "start"
                                       THEN [cache |-> cache,
                                             analyses |-> storage.analyses]
                                       ELSE @,
                          !.doneAt = IF q.pc = "done" /\ req[r].pc # "done"
                                       THEN now ELSE @]]
  /\ calls' = calls \o [i \in 1..Len(q.emit) |->
                          [req |-> r, kind |-> q.emit[i].kind,
                           repo |-> q.emit[i].repo, path |-> q.emit[i].path,
                           token |-> q.emit[i].token]]

\* githubAPI.fetchRepositoryFiles(owner, repo) is called.
StartFetchRepositoryFiles ==
  \E r \in DOMAIN req :
    /\ req[r].pc = "start"
    /\ req[r].op = "fetchRepositoryFiles"
    /\ Step(r, fetchRepositoryFiles(req[r], token))
    /\ UNCHANGED <<remote, token, nonGitHubVars>>

\* githubAPI.getFileContent(owner, repo, path) is called.
StartGetFileContent ==
  \E r \in DOMAIN req :
    /\ req[r].pc = "start"
    /\ req[r].op = "getFileContent"
    /\ Step(r, IssueCall(req[r], "content", req[r].args.path, token, "reading"))
    /\ UNCHANGED <<remote, token, nonGitHubVars>>

\* The fetch of listRepositoryContents resolves.
ListResponse ==
  \E r \in DOMAIN req :
    /\ req[r].pc = "listing"
    /\ LET response == RemoteListing(remote, req[r].pending.path)
           q == [req[r] EXCEPT !.listFailures = IF response.ok THEN @ ELSE @ + 1]
       IN  Step(r, resume(OnListResponse(q, response, token), token))
    /\ UNCHANGED <<remote, token, nonGitHubVars>>

\* The fetch of getFileContent resolves inside fetchRepositoryFiles.
ContentResponse ==
  \E r \in DOMAIN req :
    /\ req[r].pc = "fetching"
    /\ Step(r, resume(OnContentResponse(req[r], RemoteBlob(remote, req[r].pending.path),
                                        token),
                      token))
    /\ UNCHANGED <<remote, token, nonGitHubVars>>

\* The fetch of a direct getFileContent resolves.
FileContentResponse ==
  \E r \in DOMAIN req :
    /\ req[r].pc = "reading"
    /\ Step(r, [req[r] EXCEPT
                  !.pc = "read", !.pending = NoPending,
                  !.outcome = getFileContent(RemoteBlob(remote, req[r].pending.path))])
    /\ UNCHANGED <<remote, token, nonGitHubVars>>

NextIngest ==
  \/ ZipExtract
  \/ StartFetchRepositoryFiles
  \/ StartGetFileContent
  \/ ListResponse
  \/ ContentResponse
  \/ FileContentResponse

SpecIngest == InitIngest /\ [][NextIngest]_vars

-----------------------------------------------------------------------------
(* Properties of the ingestion runs *)

\* The requests that ran fetchRepositoryFiles to its return.
Fetched ==
  {r \in DOMAIN req : /\ req[r].op = "fetchRepositoryFiles"
                      /\ req[r].pc = "fetched"
                      /\ req[r].outcome.status = "ok"}

\* The FileMappings the ingestion runs have returned.
ZipMappings == IF zipPc = "done" /\ zipOut.status = "ok" THEN {zipOut.files} ELSE {}
FetchMappings == {req[r].outcome.files : r \in Fetched}
ProducedMappings == ZipMappings \cup FetchMappings

ExtensionDenylist ==
  {Str(<<".","j","p","g">>),
   Str(<<".","j","p","e","g">>),
   Str(<<".","p","n","g">>),
   Str(<<".","g","i","f">>),
   Str(<<".","s","v","g">>),
   Str(<<".","i","c","o">>),
   Str(<<".","w","e","b","p">>),
   Str(<<".","m","p","4">>),
   Str(<<".","w","e","b","m">>),
   Str(<<".","o","g","g">>),
   Str(<<".","m","p","3">>),
   Str(<<".","w","a","v">>),
   Str(<<".","p","d","f">>),
   Str(<<".","z","i","p">>),
   Str(<<".","r","a","r">>),
   Str(<<".","7","z">>),
   Str(<<".","t","a","r">>),
   Str(<<".","g","z">>),
   Str(<<".","w","o","f","f">>),
   Str(<<".","w","o","f","f","2">>),
   Str(<<".","e","o","t">>),
   Str(<<".","t","t","f">>),
   Str(<<".","e","x","e">>),
   Str(<<".","d","l","l">>),
   Str(<<".","s","o">>),
   Str(<<".","d","y","l","i","b">>),
   Str(<<".","c","l","a","s","s">>)}

DirectoryDenylist ==
  {Str(<<"n","o","d","e","_","m","o","d","u","l","e","s">>),
   Str(<<"d","i","s","t">>),
   Str(<<"b","u","i","l","d">>),
   Str(<<"t","a","r","g","e","t">>),
   Str(<<"o","u","t">>),
   Str(<<".","g","i","t">>),
   Str(<<".","i","d","e","a">>),
   Str(<<".","v","s","c","o","d","e">>),
   Str(<<".","n","e","x","t">>),
   Str(<<".","v","e","r","c","e","l">>),
   Str(<<"v","e","n","d","o","r">>),
   Str(<<"b","o","w","e","r","_","c","o","m","p","o","n","e","n","t","s">>),
   Str(<<"j","s","p","m","_","p","a","c","k","a","g","e","s">>),
   Str(<<"_","_","p","y","c","a","c","h","e","_","_">>),
   Str(<<"v","e","n","v">>),
   Str(<<"e","n","v">>),
   Str(<<".","e","n","v">>),
   Str(<<".","v","e","n","v">>)}

SourceAt(p) == source[CHOOSE i \in 1..Len(source) : source[i].path = p]

HasDeniedExtension(p) == \E e \in ExtensionDenylist : endsWith(toLowerCase(p), e)

HasDeniedSegment(p) ==
  \E i \in 1..Len(Segments(p)) : Segments(p)[i] \in DirectoryDenylist

AdmissibleContent(c) ==
  /\ contentLength(c) > 0
  /\ contentLength(c) <= 500 * 1024
  /\ nonPrintableLength(c) * 10 <= contentLength(c)

\* C4: no FileMapping returned by extractFilesFromZip or by
\* fetchRepositoryFiles has a key that ends, compared case-insensitively,
\* with an extension of the denylist.
C4_NoDeniedExtension ==
  \A m \in ProducedMappings : \A i \in 1..Len(m) : ~HasDeniedExtension(m[i].path)

\* C5: in both sources a path is rejected for its directory exactly when
\* one of its slash-separated segments is a name of the directory denylist:
\* no key of a FileMapping has such a segment, and a readable, admissible
\* file without such a segment (and without a denied extension) is a key,
\* also when a longer segment of it contains a denylisted name.
C5_SegmentRule ==
  \A m \in ProducedMappings :
    /\ \A i \in 1..Len(m) : ~HasDeniedSegment(m[i].path)
    /\ Len(source) <= MaxSourceFiles =>
         \A i \in 1..Len(source) :
           ( /\ source[i].fault = "none"
             /\ AdmissibleContent(source[i].text)
             /\ ~HasDeniedExtension(source[i].path)
             /\ ~HasDeniedSegment(source[i].path) )
           => ObjHas(m, source[i].path)

\* C6: no FileMapping of an ingestion run, from an archive or from a remote
\* repository, maps a path to empty content, to content longer than
\* 500*1024 characters, or to content more than 10% of whose characters
\* lie outside printable ASCII, tab, newline and carriage return.
C6_AdmissibleContents ==
  \A m \in ProducedMappings : \A i \in 1..Len(m) : AdmissibleContent(m[i].content)

RECURSIVE ListedFrom(_, _)
\* The files below a directory in listing order: its entries in order, a
\* directory standing for the files below it.
ListedFrom(repo, entries) ==
  LET dirs == {i \in 1..Len(entries) : entries[i].type = "dir"}
  IN  IF dirs = {} THEN entries
      ELSE LET k == CHOOSE i \in dirs : \A j \in dirs : i <= j
           IN  SubSeq(entries, 1, k - 1)
                 \o ListedFrom(repo, repo.tree[entries[k].path].entries)
                 \o ListedFrom(repo, SubSeq(entries, k + 1, Len(entries)))

\* The files of the repository that pass the path filter of
\* fetchRepositoryFiles, in listing order.
FilterSurvivors ==
  SelectSeq(ListedFrom(remote, remote.tree[<< >>].entries), fetchFilter)

\* A file the contents API answers with content in base64.
Readable(p) == SourceAt(p).fault = "none" /\ contentLength(SourceAt(p).text) > 0

\* Those whose content fetch succeeds with at most 500 KiB of content.
Storable(e) == Readable(e.path) /\ contentLength(SourceAt(e.path).text) <= 500 * 1024

\* Every listing of the repository succeeds.
AllListingsOk ==
  /\ << >> \in DOMAIN remote.tree
  /\ \A d \in DOMAIN remote.tree : remote.tree[d].ok

\* The position, among the filter survivors, of the file that fills the
\* ceiling: the last position if the ceiling is not reached.
CeilingPosition(survivors) ==
  LET stored == {n \in 1..Len(survivors) : Storable(survivors[n])}
  IN  IF Cardinality(stored) < MAX_FILES THEN Len(survivors)
      ELSE CHOOSE n \in stored : Cardinality({m \in stored : m <= n}) = MAX_FILES

\* C7: fetchRepositoryFiles returns at most 100 entries: the first files,
\* in listing order, that pass the path filter, whose content fetch
\* succeeds and whose content is at most 500 KiB, each with its whole
\* content; skipped and failed files do not count toward the ceiling, and
\* no content fetch is issued once 100 files are stored.
C7_FirstHundred ==
  /\ \A r \in DOMAIN req :
       req[r].fileCounter >= MAX_FILES => req[r].pending.kind # "content"
  /\ \A r \in Fetched :
       LET files == req[r].outcome.files
           survivors == FilterSurvivors
           storable == SelectSeq(survivors, Storable)
           expected == SubSeq(storable, 1,
                              IF Len(storable) < MAX_FILES THEN Len(storable)
                                                           ELSE MAX_FILES)
           fetchable == {survivors[n].path : n \in 1..CeilingPosition(survivors)}
       IN  /\ Len(files) <= MAX_FILES
           /\ ObjKeys(files) = [i \in 1..Len(expected) |-> expected[i].path]
           /\ \A i \in 1..Len(files) : files[i].content = SourceAt(files[i].path).text
           /\ \A c \in 1..Len(calls) :
                (calls[c].req = r /\ calls[c].kind = "content") =>
                  calls[c].path \in fetchable

\* A run that stopped at the ceiling after a failed fetch, with a file
\* left that it would have stored.
C7_Witness ==
  \E r \in Fetched :
    /\ Len(req[r].outcome.files) = MAX_FILES
    /\ Len(SelectSeq(FilterSurvivors, Storable)) > MAX_FILES
    /\ \E n \in 1..Len(FilterSurvivors) : ~Storable(FilterSurvivors[n])

\* C8: a failure while fetching one file's content (a response that is not
\* a success, missing content, an encoding other than base64) never aborts
\* fetchRepositoryFiles: when the listings succeed the operation does not
\* throw, and below the ceiling its result holds exactly the files that
\* pass the path filter and whose fetch did not fail and is at most 500 KiB,
\* with their decoded content; in a direct getFileContent call the same
\* failure makes the call fail, and a file without failure is returned
\* decoded.
C8_FailureSkipsFile ==
  \A r \in DOMAIN req :
    /\ (req[r].op = "fetchRepositoryFiles" /\ req[r].pc = "fetched" /\ AllListingsOk) =>
         /\ req[r].outcome.status = "ok"
         /\ Len(req[r].outcome.files) < MAX_FILES =>
              /\ ObjKeys(req[r].outcome.files)
                   = ObjKeys(SelectSeq(FilterSurvivors, Storable))
              /\ \A i \in 1..Len(source) :
                   ObjHas(req[r].outcome.files, source[i].path) =>
                     ObjGet(req[r].outcome.files, source[i].path) = source[i].text
    /\ (req[r].op = "getFileContent" /\ req[r].pc = "read") =>
         IF Readable(req[r].args.path)
           THEN /\ req[r].outcome.status = "ok"
                /\ req[r].outcome.value = SourceAt(req[r].args.path).text
           ELSE req[r].outcome.status = "error"

\* A run that returned files although the fetch of one of them failed.
C8_Witness ==
  \E r \in Fetched :
    /\ Len(req[r].outcome.files) > 0
    /\ \E i \in 1..Len(source) :
         /\ source[i].fault # "none"
         /\ \E c \in 1..Len(calls) :
              calls[c].kind = "content" /\ calls[c].path = source[i].path

\* The entries of the archive that are to be extracted.
ExpectedFromArchive ==
  LET kept == SelectSeq(source, LAMBDA f : /\ ~shouldSkipFile(f.path)
                                           /\ f.fault # "corrupt"
                                           /\ shouldIncludeFile(f.text))
  IN  [i \in 1..Len(kept) |-> [path |-> kept[i].path, content |-> kept[i].text]]

\* C9: in extractFilesFromZip a decode failure of one entry skips that entry
\* only: for every archive the call returns without error, and its result
\* is exactly the entries that are no directories, pass the path filter,
\* decode and pass the content filter; the archive {a.txt, img.png,
\* node_modules/x.js} yields exactly {a.txt}.
C9_DecodeFailureSkipsEntry ==
  (zipPc = "done" /\ archive.valid) =>
    /\ zipOut.status = "ok"
    /\ zipOut.files = ExpectedFromArchive
    /\ \A i \in 1..Len(zipOut.files) :
         \E e \in 1..Len(archive.entries) :
           /\ archive.entries[e].path = zipOut.files[i].path
           /\ ~archive.entries[e].dir
           /\ ~archive.entries[e].corrupt
    /\ source = ExampleSource => ObjKeys(zipOut.files) = <<Str(<<"a",".","t","x","t">>)>>

\* An archive with an entry that does not decode and an entry that does.
C9_Witness ==
  /\ zipPc = "done"
  /\ zipOut.status = "ok"
  /\ Len(zipOut.files) > 0
  /\ \E e \in 1..Len(archive.entries) : archive.entries[e].corrupt

-----------------------------------------------------------------------------
(* Requests to POST /api/analyze/github, one after another.                 *)

\* Requests per run.
MaxRequests == 2

RateLimitMessage == "GitHub API rate limit exceeded. Please try again later."
GenericFailureMessage == "Failed to analyze GitHub repository"

TooManyBody == Str(<<"T","o","o"," ","M","a","n","y"," ","R","e","q","u","e","s","t","s">>)
SecondaryLimitBody == Str(<<"Y","o","u"," ","h","a","v","e"," ","e","x","c","e","e","d","e","d"," ","a"," ","s","e","c","o","n","d","a","r","y"," ","r","a","t","e"," ","l","i","m","i","t",".">>)
PlainForbiddenBody == Str(<<"F","o","r","b","i","d","d","e","n">>)

\* The answers of the contents API that are no success.
FailureResponses ==
  { NotFound,
    Http(403, ForbiddenBody),
    Http(403, PlainForbiddenBody),
    Http(429, TooManyBody),
    Http(429, SecondaryLimitBody),
    Http(500, ServerErrorBody) }

RouteSources ==
  { <<Plain(Str(<<"a",".","t","x","t">>))>>,
    <<Plain(Str(<<"a",".","t","x","t">>)), Plain(Str(<<"s","r","c","/","a",".","t","s">>))>>,
    <<SourceFile(Str(<<"i","m","g",".","p","n","g">>), BinaryText, BinaryB64, "none")>>,
    <<SourceFile(Str(<<"l","i","m",".","t","x","t">>), HelloText, HelloB64, "http403")>>,
    <<Plain(Str(<<"a",".","t","x","t">>)), SourceFile(Str(<<"l","i","m",".","t","x","t">>), HelloText, HelloB64, "http403")>>,
    <<Plain(Str(<<"a",".","t","x","t">>)), SourceFile(Str(<<"g","o","n","e",".","t","x","t">>), HelloText, HelloB64, "http404")>> }

ListingFailureSource == <<Plain(Str(<<"a",".","t","x","t">>)), Plain(Str(<<"s","r","c","/","a",".","t","s">>))>>

NoUser == [authenticated |-> FALSE, id |-> 0, githubAccessToken |-> NoString]
SignedInUser == [authenticated |-> TRUE, id |-> 7, githubAccessToken |-> Str(<<"t","o","k","U">>)]

PlainUrl == Str(<<"h","t","t","p","s",":","/","/","g","i","t","h","u","b",".","c","o","m","/","o","/","r">>)
DotGitUrl == Str(<<"h","t","t","p","s",":","/","/","g","i","t","h","u","b",".","c","o","m","/","o","/","r",".","g","i","t","/">>)
OtherHostUrl == Str(<<"h","t","t","p","s",":","/","/","e","x","a","m","p","l","e",".","c","o","m","/","o","/","r">>)
DemoName == Str(<<"d","e","m","o">>)
BearerA == Str(<<"B","e","a","r","e","r"," ","t","o","k","A">>)

RouteArgs(valid, url, name, authorization, user) ==
  [valid |-> valid, repositoryUrl |-> url, repositoryName |-> name,
   authorization |-> authorization, user |-> user, repo |-> << >>, path |-> << >>]

\* The requests that follow the first.
FollowUpArgs ==
  << RouteArgs(TRUE, PlainUrl, DemoName, NoString, NoUser),
     RouteArgs(TRUE, DotGitUrl, << >>, BearerA, NoUser) >>

FirstArgs ==
  FollowUpArgs \o
  << RouteArgs(TRUE, PlainUrl, DemoName, NoString, SignedInUser),
     RouteArgs(FALSE, PlainUrl, << >>, NoString, NoUser),
     RouteArgs(TRUE, NoString, DemoName, NoString, NoUser),
     RouteArgs(TRUE, OtherHostUrl, DemoName, NoString, NoUser) >>

\* What a chat completion gives: a text, no text, or an error.
LlmOutcomes ==
  << [ok |-> TRUE, content |-> Text(Str(<<"r","e","p","o","r","t">>))],
     [ok |-> TRUE, content |-> NoText],
     [ok |-> FALSE, message |-> Str(<<"C","o","n","n","e","c","t","i","o","n"," ","e","r","r","o","r",".">>)] >>

StorageErrorMessage == Str(<<"c","o","n","n","e","c","t","i","o","n"," ","t","e","r","m","i","n","a","t","e","d">>)

InitRoute ==
  /\ CacheIdle
  /\ SamplerIdle
  /\ ZipIdle
  /\ \/ /\ source \in RouteSources
        /\ remote = RepositoryOf(source)
     \/ /\ source = ListingFailureSource
        /\ \E d \in {<< >>, SrcDir}, response \in FailureResponses :
             remote = WithListing(RepositoryOf(source), d, response)
  /\ token = NoString
  /\ \E a \in 1..Len(FirstArgs) : req = <<NewRequest("route", FirstArgs[a])>>
  /\ calls = << >>
  /\ \E kind \in {"mem", "db"} : storage = [NoStorage EXCEPT !.kind = kind]

\* What a step of the handler leaves alone besides the cache, the token,
\* the requests, the calls and the storage.
routeFrame == <<now, cacheRet, lastSet, samplerVars, source, zipVars, remote>>

\* A request arrives when the requests before it are answered.
Arrive ==
  /\ Len(req) < MaxRequests
  /\ \A r \in DOMAIN req : req[r].pc = "done"
  /\ \E a \in 1..Len(FollowUpArgs) :
       req' = Append(req, NewRequest("route", FollowUpArgs[a]))
  /\ UNCHANGED <<cache, token, calls, storage, routeFrame>>

\* The handler runs to its first await or to its answer: validation, the
\* cache lookup, setToken and the first listing call.
RouteStart ==
  \E r \in DOMAIN req :
    /\ req[r].pc = "start"
    /\ req[r].op = "route"
    /\ LET q == req[r]
           reaches == ReachesCache(q)
           hit == reaches /\ MemoryCache_get_hit(cache, routeCacheKey(q), now)
           cachedAnalysis ==
             IF hit THEN [found |-> TRUE,
                          value |-> MemoryCache_get_value(cache, routeCacheKey(q), now)]
                    ELSE [found |-> FALSE]
           tok == IF reaches /\ ~hit THEN tokenAfterRequest(q.args, token) ELSE token
       IN  /\ cache' = IF reaches THEN MemoryCache_get_store(cache, routeCacheKey(q), now)
                                  ELSE cache
           /\ token' = tok
           /\ Step(r, routeStart(q, cachedAnalysis, tok))
    /\ UNCHANGED <<storage, routeFrame>>

-----------------------------------------------------------------------------
(* routes.ts: POST /api/analyze/upload.                                     *)

\* path.basename(zipFilePath, path.extname(zipFilePath)) of the file multer
\* wrote: the field name, a time stamp and a random number.
UploadBaseName == Str(<<"r","e","p","o","s","i","t","o","r","y","-","1","7","0","0","0","0","0","0","0","0","0","0","0","-","1">>)

UploadArgs(hasFile, name) ==
  [hasFile |-> hasFile, repositoryName |-> name, unlinkFails |-> FALSE,
   repo |-> << >>, path |-> << >>]

\* cleanupTempFiles(zipFilePath): the file multer wrote exists; unlinkSync
\* removes it or throws, and what it throws is caught and logged.
cleanupTempFiles(q) ==
  [q EXCEPT !.emit = Append(@, [kind |-> IF q.args.unlinkFails THEN "unlinkFailed"
                                                               ELSE "unlink",
                                repo |-> << >>, path |-> << >>, token |-> NoString])]

\* catch (error) of the upload handler.
uploadCatch(q, errorMessage) ==
  Respond(q, [status |-> 500, message |-> "Failed to analyze repository",
              details |-> errorMessage])

\* Mutant: the upload handler without its check for an empty mapping.
uploadStart_NoEmptyCheck(q, extracted) ==
  IF ~q.args.hasFile
    THEN Respond(q, [status |-> 400, message |-> "No file uploaded"])
  ELSE IF extracted.status = "error"
    THEN uploadCatch([q EXCEPT !.outcome = extracted], extracted.message)
  ELSE IssueCall([q EXCEPT !.outcome = extracted,
                           !.selected = selectRepresentativeFiles(extracted.files)],
                 "technicalAnalysis", << >>, NoString, "analyzing")

\* The upload handler from its start to the first LLM call of
\* analyzeRepository or to its answer, given what extractFilesFromZip
\* returned or threw.
uploadStart(q, extracted) ==
  IF ~q.args.hasFile
    THEN Respond(q, [status |-> 400, message |-> "No file uploaded"])
  ELSE IF extracted.status = "error"
    THEN uploadCatch([q EXCEPT !.outcome = extracted], extracted.message)
  ELSE IF Len(extracted.files) = 0
    THEN Respond(cleanupTempFiles([q EXCEPT !.outcome = extracted]),
                 [status |-> 400, message |-> "No analyzable files found"])
  ELSE IssueCall([q EXCEPT !.outcome = extracted,
                           !.selected = selectRepresentativeFiles(extracted.files)],
                 "technicalAnalysis", << >>, NoString, "analyzing")

\* req.body.repositoryName || path.basename(...), and the record the upload
\* handler hands to storage.saveRepositoryAnalysis.
uploadRecord(q, userManual) ==
  [repositoryName |-> IF Len(q.args.repositoryName) > 0 THEN q.args.repositoryName
                      ELSE UploadBaseName,
   repositoryUrl |-> "null",
   technicalAnalysis |-> q.analysis,
   userManual |-> userManual,
   analyzedFiles |-> Len(q.selected),
   totalFiles |-> Len(q.outcome.files),
   id |-> 0,
   analysisSummary |-> Missing,
   createdAt |-> 0,
   userId |-> 0]

\* The body the upload handler answers with.
uploadResponseData(saved) ==
  [id |-> saved.id,
   repositoryName |-> saved.repositoryName,
   technicalAnalysis |-> saved.technicalAnalysis,
   userManual |-> saved.userManual,
   analyzedFiles |-> saved.analyzedFiles,
   totalFiles |-> saved.totalFiles,
   analysisSummary |-> saved.analysisSummary]

\* The catch of the handler that awaits analyzeRepository or the save.
handlerCatch(q, errorMessage) ==
  IF q.op = "upload" THEN uploadCatch(q, errorMessage) ELSE routeCatch(q, errorMessage)

\* Mutant: a result that counts every file of the mapping as analyzed.
handlerRecord_AllAnalyzed(q, userManual) ==
  [(IF q.op = "upload" THEN uploadRecord(q, userManual)
                       ELSE analysisRecord(q, userManual))
     EXCEPT !.analyzedFiles = Len(q.outcome.files)]

\* The record of the handler that awaits analyzeRepository.
handlerRecord(q, userManual) ==
  IF q.op = "upload" THEN uploadRecord(q, userManual) ELSE analysisRecord(q, userManual)

\* analyzeRepository after its first completion: the text is kept and the
\* user-manual call is made; an error goes to the catch of the handler.
TechnicalAnalysisResponse ==
  \E r \in DOMAIN req, o \in 1..Len(LlmOutcomes) :
    /\ req[r].pc = "analyzing"
    /\ LET q == [req[r] EXCEPT !.llm = Append(@, o)]
       IN  Step(r, IF LlmOutcomes[o].ok
                     THEN IssueCall([q EXCEPT
                                       !.analysis = contentOrEmpty(LlmOutcomes[o].content)],
                                    "userManual", << >>, NoString, "writing")
                     ELSE handlerCatch(q, LlmOutcomes[o].message))
    /\ UNCHANGED <<cache, token, storage, routeFrame>>

\* res.json(responseData) on the path that ran the pipeline, in the log.
answerSent(q) ==
  [q EXCEPT !.emit = Append(@, [kind |-> "answer", repo |-> << >>, path |-> << >>,
                                token |-> NoString])]

\* Mutant: the handler leaves an entry the cache already holds.
routeFinish_KeepsCached(r, q, record) ==
  LET saved == [record EXCEPT !.id = storage.nextId, !.createdAt = now]
  IN  /\ storage' = [storage EXCEPT !.analyses = Append(@, saved),
                                    !.nextId = @ + 1]
      /\ cache' = IF q.op = "upload" \/ routeCacheKey(q) \in DOMAIN cache THEN cache
                   ELSE MemoryCache_set(cache, routeCacheKey(q), responseData(saved),
                                        3600, now)
      /\ Step(r, Respond(answerSent(IF q.op = "upload" THEN cleanupTempFiles(q) ELSE q),
                          [status |-> 200,
                           body |-> IF q.op = "upload" THEN uploadResponseData(saved)
                                                       ELSE responseData(saved),
                           cached |-> FALSE]))

\* storage.saveRepositoryAnalysis returned: the answer, in the GitHub
\* handler after cache.set and in the upload handler after cleanupTempFiles.
routeFinish(r, q, record) ==
  LET saved == [record EXCEPT !.id = storage.nextId, !.createdAt = now]
  IN  /\ storage' = [storage EXCEPT !.analyses = Append(@, saved),
                                    !.nextId = @ + 1]
      /\ cache' = IF q.op = "upload" THEN cache
                   ELSE MemoryCache_set(cache, routeCacheKey(q), responseData(saved),
                                        3600, now)
      /\ Step(r, Respond(answerSent(IF q.op = "upload" THEN cleanupTempFiles(q) ELSE q),
                          [status |-> 200,
                           body |-> IF q.op = "upload" THEN uploadResponseData(saved)
                                                       ELSE responseData(saved),
                           cached |-> FALSE]))

\* analyzeRepository after its second completion: the handler saves the
\* analysis; MemStorage saves without an await, the database with one.
UserManualResponse ==
  \E r \in DOMAIN req, o \in 1..Len(LlmOutcomes) :
    /\ req[r].pc = "writing"
    /\ LET q == [req[r] EXCEPT !.llm = Append(@, o)]
           out == LlmOutcomes[o]
           record == handlerRecord(q, contentOrEmpty(out.content))
       IN  IF ~out.ok
             THEN /\ Step(r, handlerCatch(q, out.message))
                  /\ UNCHANGED <<cache, storage>>
           ELSE IF storage.kind = "mem"
             THEN routeFinish(r, q, record)
           ELSE /\ Step(r, [q EXCEPT !.pc = "saving",
                                     !.pending = [kind |-> "save", path |-> << >>,
                                                  record |-> record]])
                /\ UNCHANGED <<cache, storage>>
    /\ UNCHANGED <<token, routeFrame>>

\* The insert of the database returns or fails.
SaveResponse ==
  \E r \in DOMAIN req, ok \in BOOLEAN :
    /\ req[r].pc = "saving"
    /\ IF ok
         THEN routeFinish(r, req[r], req[r].pending.record)
         ELSE /\ Step(r, handlerCatch(req[r], StorageErrorMessage))
              /\ UNCHANGED <<cache, storage>>
    /\ UNCHANGED <<token, routeFrame>>

NextRoute ==
  \/ Arrive
  \/ RouteStart
  \/ ListResponse
  \/ ContentResponse
  \/ TechnicalAnalysisResponse
  \/ UserManualResponse
  \/ SaveResponse

SpecRoute == InitRoute /\ [][NextRoute]_vars

\* The remote calls of request r that were answered with a failure, with
\* the status of the answer.
FailedStatuses(r) ==
  { (IF calls[c].kind = "list" THEN RemoteListing(remote, calls[c].path)
                               ELSE RemoteBlob(remote, calls[c].path)).status :
      c \in {i \in 1..Len(calls) :
               /\ calls[i].req = r
               /\ calls[i].kind \in {"list", "content"}
               /\ ~(IF calls[i].kind = "list"
                      THEN RemoteListing(remote, calls[i].path)
                      ELSE RemoteBlob(remote, calls[i].path)).ok} }

\* C10: whenever a remote repository call made for a /api/analyze/github
\* request fails with status 403 or 429 the request is answered with the
\* rate-limit response (429 and the rate-limit message), and when a call
\* fails with another status (and none with 403 or 429) it is answered
\* with the generic failure response.
C10_RateLimitByStatus ==
  \A r \in DOMAIN req :
    (req[r].op = "route" /\ req[r].pc = "done" /\ FailedStatuses(r) # {}) =>
      IF FailedStatuses(r) \cap {403, 429} # {}
        THEN /\ req[r].response.status = 429
             /\ req[r].response.message = RateLimitMessage
        ELSE /\ req[r].response.status = 500
             /\ req[r].response.message = GenericFailureMessage

-----------------------------------------------------------------------------
(* Requests to POST /api/analyze/github one after another while the clock   *)
(* advances across the time to live of the analysis cache.                  *)

\* Hours the clock covers.
MaxHours == 1

\* The readings of Date.now(): each whole hour, and 1 ms after it.
RouteInstants == {h * 3600000 + e : h \in 0..MaxHours, e \in {0, 1}}

\* The requests of a run, in their order of arrival: one repository under
\* two spellings of its URL.
TimedRequests ==
  << RouteArgs(TRUE, PlainUrl, DemoName, NoString, NoUser),
     RouteArgs(TRUE, DotGitUrl, << >>, BearerA, NoUser),
     RouteArgs(TRUE, PlainUrl, DemoName, NoString, NoUser) >>

TimedSource == <<Plain(Str(<<"a",".","t","x","t">>))>>

InitRouteTimed ==
  /\ CacheIdle
  /\ SamplerIdle
  /\ ZipIdle
  /\ source = TimedSource
  /\ remote = RepositoryOf(source)
  /\ token = NoString
  /\ req = <<NewRequest("route", TimedRequests[1])>>
  /\ calls = << >>
  /\ storage = NoStorage

\* Time passes.
RouteTick ==
  /\ \E t \in RouteInstants : t > now /\ now' = t
  /\ UNCHANGED <<cache, cacheRet, lastSet, nonCacheVars>>

\* The next request arrives when the requests before it are answered.
ArriveInTurn ==
  /\ Len(req) < Len(TimedRequests)
  /\ \A r \in DOMAIN req : req[r].pc = "done"
  /\ req' = Append(req, NewRequest("route", TimedRequests[Len(req) + 1]))
  /\ UNCHANGED <<cache, token, calls, storage, routeFrame>>

NextRouteTimed ==
  \/ RouteTick
  \/ ArriveInTurn
  \/ RouteStart
  \/ ListResponse
  \/ ContentResponse
  \/ TechnicalAnalysisResponse
  \/ UserManualResponse

SpecRouteTimed == InitRouteTimed /\ [][NextRouteTimed]_vars

\* The answered requests of the route with a well-formed body.
Answered ==
  {r \in DOMAIN req : req[r].op = "route" /\ req[r].pc = "done" /\ ReachesCache(req[r])}

\* Request r was answered with status 200.
Succeeded(r) == r \in Answered /\ req[r].response.status = 200

\* Request r was answered with status 200 by running the pipeline, which
\* writes the cache at the time of the answer.
Computed(r) == Succeeded(r) /\ ~req[r].response.cached

SameRepository(r1, r2) == routeCacheKey(req[r1]) = routeCacheKey(req[r2])

CallsOf(r) == {c \in 1..Len(calls) : calls[c].req = r}

AnalysisTtl == 3600 * 1000

\* Request r2 was answered from the cache with the answer of r1, without a
\* call to the remote repository or to the model and without a new record.
ServedFromCache(r1, r2) ==
  /\ req[r2].response.status = 200
  /\ req[r2].response.cached
  /\ req[r2].response.body = req[r1].response.body
  /\ CallsOf(r2) = {}
  /\ \A i \in 1..Len(storage.analyses) :
       storage.analyses[i].id # req[r2].response.body.id
         \/ \E r \in 1..(r2 - 1) : Computed(r) /\ req[r].response.body.id = storage.analyses[i].id

\* Request r ran the pipeline: it called the remote repository.
RanPipeline(r) ==
  /\ ~(req[r].response.status = 200 /\ req[r].response.cached)
  /\ \E c \in CallsOf(r) : calls[c].kind = "list"

\* The statement as written: the hour counts from the answer of any earlier
\* successful request, one answered from the cache included.
C11_AsWritten ==
  \A r2 \in Answered : \A r1 \in 1..(r2 - 1) :
    (Succeeded(r1) /\ SameRepository(r1, r2)
       /\ req[r2].startedAt <= req[r1].doneAt + AnalysisTtl)
      => ServedFromCache(r1, r2)

\* C11: for requests handled one after another, once a request for a URL
\* has been answered successfully at time t by running the pipeline (the
\* answer that writes the cache), every later request with the same
\* normalized URL that arrives no later than t + 3600 s is answered with the
\* cached response, with no remote call, no model call and no new stored
\* record; a request that arrives more than 3600 s after the latest such
\* answer runs the full pipeline again. An answer served from the cache
\* does not extend the hour.
C11_CachedWithinTtl ==
  \A r2 \in Answered :
    LET writers == {r1 \in 1..(r2 - 1) : Computed(r1) /\ SameRepository(r1, r2)}
        fresh == {r1 \in writers : req[r2].startedAt <= req[r1].doneAt + AnalysisTtl}
    IN  /\ \A r1 \in fresh : ServedFromCache(r1, r2)
        /\ fresh = {} => RanPipeline(r2)
        /\ Len(storage.analyses) = Cardinality({r \in Answered : Computed(r)})

\* A request that arrived exactly one hour after the analysis was cached and
\* was served from the cache, and a later one that ran the pipeline again.
C11_Witness ==
  \E r1, r2, r3 \in Answered :
    /\ r1 < r2 /\ r2 < r3
    /\ Computed(r1)
    /\ req[r2].startedAt = req[r1].doneAt + AnalysisTtl
    /\ req[r2].response.cached
    /\ req[r3].startedAt > req[r1].doneAt + AnalysisTtl
    /\ Computed(r3)

-----------------------------------------------------------------------------
(* Two requests to POST /api/analyze/github for one repository, each under  *)
(* a spelling of its URL.                                                   *)

\* Trailing slashes a spelling carries at most.
MaxSlashes == 2

ReadmeQuery == Str(<<"?","t","a","b","=","r","e","a","d","m","e">>)

\* The spellings of https://github.com/o/r: with or without .git, with
\* trailing slashes, with or without query parameters.
UrlSpellings ==
  {PlainUrl \o git \o [i \in 1..n |-> Slash] \o query :
     git \in {<< >>, DotGit}, n \in 0..MaxSlashes, query \in {<< >>, ReadmeQuery}}

InitRouteUrls ==
  /\ CacheIdle
  /\ SamplerIdle
  /\ ZipIdle
  /\ source = TimedSource
  /\ remote = RepositoryOf(source)
  /\ token = NoString
  /\ \E url \in UrlSpellings :
       req = <<NewRequest("route", RouteArgs(TRUE, url, DemoName, NoString, NoUser))>>
  /\ calls = << >>
  /\ storage = NoStorage

\* The second request arrives when the first is answered.
ArriveRespelled ==
  /\ Len(req) = 1
  /\ req[1].pc = "done"
  /\ \E url \in UrlSpellings :
       req' = Append(req, NewRequest("route",
                                     RouteArgs(TRUE, url, DemoName, NoString, NoUser)))
  /\ UNCHANGED <<cache, token, calls, storage, routeFrame>>

NextRouteUrls ==
  \/ ArriveRespelled
  \/ RouteStart
  \/ ListResponse
  \/ ContentResponse
  \/ TechnicalAnalysisResponse
  \/ UserManualResponse

SpecRouteUrls == InitRouteUrls /\ [][NextRouteUrls]_vars

\* C12: two repository URLs that differ only by trailing slashes, by a .git
\* suffix or by query parameters are normalized to the same identity and map
\* to the same analysis cache key: any two requests of a run look up the same
\* key, and the cache never holds more than one entry.
C12_SameCacheKey ==
  /\ \A r1, r2 \in DOMAIN req :
       /\ normalizeRepoUrl(req[r1].args.repositoryUrl)
            = normalizeRepoUrl(req[r2].args.repositoryUrl)
       /\ routeCacheKey(req[r1]) = routeCacheKey(req[r2])
  /\ Cardinality(DOMAIN cache) <= 1

-----------------------------------------------------------------------------
(* One analysis request per run: an upload to POST /api/analyze/upload or   *)
(* a request to POST /api/analyze/github.                                   *)

\* What is uploaded: archives with and without admissible files.
UploadSources ==
  { << >>,
    <<Plain(Str(<<"a",".","t","x","t">>))>>,
    <<Plain(Str(<<"a",".","t","x","t">>)), Plain(Str(<<"s","r","c","/","a",".","t","s">>))>>,
    <<Plain(Str(<<"a",".","t","x","t">>)), Plain(Str(<<"b",".","t","x","t">>))>>,
    ExampleSource,
    <<SourceFile(Str(<<"i","m","g",".","p","n","g">>), BinaryText, BinaryB64, "none")>>,
    <<Plain(Str(<<"n","o","d","e","_","m","o","d","u","l","e","s","/","x",".","j","s">>))>>,
    <<SourceFile(Str(<<"e","m","p","t","y",".","t","x","t">>), << >>, << >>, "none")>>,
    <<SourceFile(Str(<<"b","a","d",".","t","x","t">>), HelloText, HelloB64, "corrupt")>>,
    <<SourceFile(Str(<<"d","o","c","s","/","b","i","g",".","m","d">>), BigText, BigB64, "none")>>,
    <<SourceFile(Str(<<"d","o","c","s","/","l","o","n","g",".","m","d">>), LongContent, << >>, "none"), Plain(Str(<<"a",".","t","x","t">>))>> }

InitUpload ==
  /\ CacheIdle
  /\ SamplerIdle
  /\ \/ /\ source \in UploadSources
        /\ archive = ArchiveOf(source)
        /\ \E name \in {<< >>, DemoName}, fails \in BOOLEAN :
             req = <<NewRequest("upload",
                                [UploadArgs(TRUE, name) EXCEPT !.unlinkFails = fails])>>
     \/ /\ source \in {<< >>, <<Plain(Str(<<"a",".","t","x","t">>))>>}
        /\ archive = [ArchiveOf(source) EXCEPT !.valid = FALSE]
        /\ \E hasFile \in BOOLEAN :
             req = <<NewRequest("upload", UploadArgs(hasFile, DemoName))>>
  /\ zipOut = NoResult
  /\ zipPc = "start"
  /\ remote = NoRemote
  /\ token = NoString
  /\ calls = << >>
  /\ \E kind \in {"mem", "db"} : storage = [NoStorage EXCEPT !.kind = kind]

\* The upload handler runs to its first LLM call or to its answer: readFile
\* and extractFilesFromZip.
UploadStart ==
  \E r \in DOMAIN req :
    /\ req[r].pc = "start"
    /\ req[r].op = "upload"
    /\ LET extracted == IF req[r].args.hasFile THEN extractFilesFromZip(archive)
                                               ELSE NoResult
       IN  /\ zipOut' = extracted
           /\ zipPc' = "done"
           /\ Step(r, uploadStart(req[r], extracted))
    /\ UNCHANGED <<archive, remote, token, cacheVars, samplerVars, source, storage>>

InitAnalyze == InitRoute \/ InitUpload

NextAnalyze ==
  \/ UploadStart
  \/ RouteStart
  \/ ListResponse
  \/ ContentResponse
  \/ TechnicalAnalysisResponse
  \/ UserManualResponse
  \/ SaveResponse

SpecAnalyze == InitAnalyze /\ [][NextAnalyze]_vars

\* The calls to the model.
LlmCalls == {c \in 1..Len(calls) : calls[c].kind \in {"technicalAnalysis", "userManual"}}

NoFilesResponse(r) ==
  /\ req[r].response.status = 400
  /\ req[r].response.message = "No analyzable files found"

\* Nothing was asked of the model, stored or cached.
NothingAnalyzed ==
  /\ LlmCalls = {}
  /\ storage.analyses = << >>
  /\ cache = << >>

\* The request of the run found no admissible file: an upload of a readable
\* archive none of whose entries is to be extracted, or a GitHub request
\* that reached the fetch of a repository whose listings succeed and that
\* has no file passing the path filter with a fetch that succeeds below the
\* size limit.
NoAdmissibleFiles(r) ==
  \/ /\ req[r].op = "upload"
     /\ req[r].args.hasFile
     /\ archive.valid
     /\ ExpectedFromArchive = << >>
  \/ /\ req[r].op = "route"
     /\ ReachesCache(req[r])
     /\ matchRepositoryUrl(normalizeRepoUrl(req[r].args.repositoryUrl)).matched
     /\ AllListingsOk
     /\ SelectSeq(FilterSurvivors, Storable) = << >>

\* C13: the model is never invoked with an empty FileMapping: every call to
\* the model comes from a request whose FileMapping has a file; and when the
\* ingestion of an upload or of a GitHub request yields no admissible file,
\* the extractor or fetcher returns the empty mapping without raising and
\* the request is answered "No analyzable files found" (400) with no call
\* to the model, no stored analysis and no cache entry.
C13_NoLlmOnEmptyMapping ==
  /\ \A c \in LlmCalls :
       /\ req[calls[c].req].outcome.status = "ok"
       /\ Len(req[calls[c].req].outcome.files) > 0
  /\ \A r \in DOMAIN req :
       (req[r].pc = "done" /\ NoAdmissibleFiles(r)) =>
         /\ req[r].outcome = [status |-> "ok", files |-> << >>]
         /\ NoFilesResponse(r)
         /\ NothingAnalyzed
  /\ \A r \in DOMAIN req :
       (NoAdmissibleFiles(r) \/ req[r].outcome = [status |-> "ok", files |-> << >>])
         => NothingAnalyzed

\* A GitHub request whose only file could not be fetched, and an upload
\* without an admissible file, were answered with the error.
C13_Witness ==
  \E r \in DOMAIN req :
    /\ req[r].pc = "done"
    /\ NoAdmissibleFiles(r)
    /\ NoFilesResponse(r)
    /\ \/ req[r].op = "upload" /\ Len(archive.entries) > 0
       \/ req[r].op = "route" /\ \E c \in 1..Len(calls) : calls[c].kind = "content"

\* The calls request r made to the model, by kind.
LlmCallsOf(r, kind) == {c \in CallsOf(r) : calls[c].kind = kind}

\* analyzeRepository returned an AnalysisResult to the handler of r: the
\* handler went on to save it.
ReturnedResult(r) ==
  \/ req[r].pc = "saving"
  \/ req[r].pc = "done" /\ req[r].response.status = 200 /\ ~req[r].response.cached
  \/ req[r].pc = "done" /\ req[r].response.status = 500
       /\ req[r].response.details = StorageErrorMessage

\* C14: analyzeRepository issues the technical-analysis call first and the
\* user-manual call only after the first has returned; if either call errors
\* or returns no usable text the operation fails and returns no
\* AnalysisResult, and after a failed first call the second call is not
\* issued: the user-manual call is only made with a technical analysis that
\* has text, and a returned result has text in both parts.
C14_FailsWithoutUsableText ==
  \A r \in DOMAIN req :
    /\ Cardinality(LlmCallsOf(r, "technicalAnalysis")) <= 1
    /\ Cardinality(LlmCallsOf(r, "userManual")) <= 1
    /\ \A c \in LlmCallsOf(r, "userManual") :
         \E c0 \in LlmCallsOf(r, "technicalAnalysis") : c0 < c
    /\ req[r].pc = "analyzing" => LlmCallsOf(r, "userManual") = {}
    /\ LlmCallsOf(r, "userManual") # {} => contentLength(req[r].analysis) > 0
    /\ ReturnedResult(r) =>
         /\ contentLength(req[r].analysis) > 0
         /\ req[r].pc = "done" /\ req[r].response.status = 200 =>
              /\ contentLength(req[r].response.body.technicalAnalysis) > 0
              /\ contentLength(req[r].response.body.userManual) > 0

-----------------------------------------------------------------------------
(* routes.ts: POST /api/explain, and openai-api.ts: explainCode.            *)

NoExplanation == Text(Str(<<"N","o"," ","e","x","p","l","a","n","a","t","i","o","n"," ","g","e","n","e","r","a","t","e","d",".">>))

\* response.choices[0].message.content || "No explanation generated."
explanationOf(content) == IF Truthy(content) THEN content ELSE NoExplanation

\* A snippet with its language and the title extractCodeTitle gives it.
Snippet(code, language, title) == [code |-> code, language |-> language, title |-> title]

Snippets ==
  { Snippet(Str(<<"x"," ","="," ","1">>), Str(<<"a","u","t","o">>), Str(<<"x"," ","="," ","1">>)),
    Snippet(Str(<<"f","u","n","c","t","i","o","n"," ","f","(",")"," ","{","}">>), Str(<<"j","a","v","a","s","c","r","i","p","t">>), Str(<<"f"," ","(","j","a","v","a","s","c","r","i","p","t",")">>)) }

DetailLevels == {"basic", "standard", "advanced"}

\* valid: codeToTextRequestSchema.safeParse(req.body).success
ExplainArgs(valid, snippet, detailLevel, user) ==
  [valid |-> valid, snippet |-> snippet, detailLevel |-> detailLevel, user |-> user,
   repo |-> << >>, path |-> << >>]

\* The handler to the call of the model in explainCode, or to its answer.
explainStart(q) ==
  IF ~q.args.valid
    THEN Respond(q, [status |-> 400, message |-> "Invalid request data"])
    ELSE IssueCall(q, "explainCode", << >>, NoString, "explaining")

\* What explainCode returns or throws, given what the completion gave.
explainCode(out) ==
  IF out.ok THEN [status |-> "ok", value |-> explanationOf(out.content)]
            ELSE [status |-> "error", message |-> out.message]

\* The handler after await openaiAPI.explainCode(...).
explainAfterCall(q) ==
  IF q.outcome.status = "error"
    THEN Respond(q, [status |-> 500, message |-> "Failed to explain code",
                     details |-> q.outcome.message])
    ELSE Respond(q, [status |-> 200, explanation |-> q.outcome.value])

\* The record the handler hands to storage.saveExplanation.
explanationRecord(q) ==
  [id |-> Len(storage.explanations) + 1,
   userId |-> q.args.user.id,
   title |-> q.args.snippet.title,
   code |-> q.args.snippet.code,
   explanation |-> q.outcome.value,
   language |-> q.args.snippet.language,
   type |-> "code-to-text"]

InitExplain ==
  /\ CacheIdle
  /\ SamplerIdle
  /\ ZipIdle
  /\ source = << >>
  /\ remote = NoRemote
  /\ token = NoString
  /\ \E valid \in BOOLEAN, snippet \in Snippets, level \in DetailLevels,
        user \in {NoUser, SignedInUser} :
       req = <<NewRequest("explain", ExplainArgs(valid, snippet, level, user))>>
  /\ calls = << >>
  /\ \E kind \in {"mem", "db"} : storage = [NoStorage EXCEPT !.kind = kind]

\* The next request arrives when the requests before it are answered.
ArriveExplain ==
  /\ Len(req) < MaxRequests
  /\ \A r \in DOMAIN req : req[r].pc = "done"
  /\ \E snippet \in Snippets, user \in {NoUser, SignedInUser} :
       req' = Append(req, NewRequest("explain",
                                     ExplainArgs(TRUE, snippet, "standard", user)))
  /\ UNCHANGED <<cache, token, calls, storage, routeFrame>>

ExplainStart ==
  \E r \in DOMAIN req :
    /\ req[r].pc = "start"
    /\ req[r].op = "explain"
    /\ Step(r, explainStart(req[r]))
    /\ UNCHANGED <<cache, token, storage, routeFrame>>

\* The completion arrives or the call fails; a signed-in user's explanation
\* is saved to the history, and a failure of the save (the database) is
\* logged and ignored.
ExplainResponse ==
  \E r \in DOMAIN req, o \in 1..Len(LlmOutcomes), saves \in BOOLEAN :
    /\ req[r].pc = "explaining"
    /\ saves \/ storage.kind = "db"
    /\ LET q == [req[r] EXCEPT !.llm = Append(@, o),
                               !.outcome = explainCode(LlmOutcomes[o])]
       IN  /\ storage' =
                IF q.outcome.status = "ok" /\ q.args.user.authenticated /\ saves
                  THEN [storage EXCEPT !.explanations = Append(@, explanationRecord(q))]
                  ELSE storage
           /\ Step(r, explainAfterCall(q))
    /\ UNCHANGED <<cache, token, routeFrame>>

NextExplain ==
  \/ ArriveExplain
  \/ ExplainStart
  \/ ExplainResponse

SpecExplain == InitExplain /\ [][NextExplain]_vars

\* C15: on the explanation path a failure of the model never aborts the
\* request: when the call of the model fails or returns no usable text,
\* explainCode yields "No explanation generated." and the /api/explain
\* request is answered successfully with it.
C15_ExplainNeverAborts ==
  \A r \in DOMAIN req :
    (req[r].op = "explain" /\ req[r].pc = "done" /\ req[r].args.valid) =>
      LET out == LlmOutcomes[req[r].llm[1]]
      IN  (~out.ok \/ ~Truthy(out.content)) =>
            /\ req[r].outcome = [status |-> "ok", value |-> NoExplanation]
            /\ req[r].response.status = 200
            /\ req[r].response.explanation = NoExplanation

-----------------------------------------------------------------------------
(* cache.ts: getOrSet, called by callers that overlap.  A call runs from    *)
(* its start to `await factory()`, and from there to its return.            *)

\* What the factory of each caller resolves to; there are as many callers
\* as values.
FactoryValues == <<"v", "w">>

GetOrSetArgs(key, ttlSeconds, value) ==
  [key |-> key, ttlSeconds |-> ttlSeconds, value |-> value,
   repo |-> << >>, path |-> << >>]

\* An event of a call in the log: `factory` when the factory is invoked,
\* `return` when getOrSet returns or throws.
LogEvent(q, kind) ==
  [q EXCEPT !.emit = Append(@, [kind |-> kind, repo |-> << >>, path |-> << >>,
                                token |-> NoString])]

\* getOrSet to its return with the cached value or to `await factory()`.
getOrSetStart(q, c, t) ==
  IF MemoryCache_get_hit(c, q.args.key, t)
    THEN LogEvent([q EXCEPT !.pc = "done",
                            !.outcome = [status |-> "ok", cached |-> TRUE,
                                         value |-> MemoryCache_get_value(c, q.args.key, t)]],
                  "return")
    ELSE LogEvent([q EXCEPT !.pc = "computing"], "factory")

\* getOrSet after `await factory()`: the value is returned, or the rejection
\* of the factory is the rejection of getOrSet.
getOrSetReturn(q, resolved) ==
  LogEvent([q EXCEPT !.pc = "done",
                     !.outcome = IF resolved
                                   THEN [status |-> "ok", cached |-> FALSE,
                                         value |-> q.args.value]
                                   ELSE [status |-> "error"]],
           "return")

InitGetOrSet ==
  /\ CacheIdle
  /\ SamplerIdle
  /\ ZipIdle
  /\ source = << >>
  /\ remote = NoRemote
  /\ token = NoString
  /\ \E keys \in [DOMAIN FactoryValues -> CacheKeys],
        ttls \in [DOMAIN FactoryValues -> TtlChoices] :
       req = [i \in DOMAIN FactoryValues |->
                NewRequest("getOrSet", GetOrSetArgs(keys[i], ttls[i], FactoryValues[i]))]
  /\ calls = << >>
  /\ storage = NoStorage

\* const cachedValue = this.get(key); ... await factory()
GetOrSetStart ==
  \E r \in DOMAIN req :
    /\ req[r].pc = "start"
    /\ req[r].op = "getOrSet"
    /\ cache' = MemoryCache_get_store(cache, req[r].args.key, now)
    /\ Step(r, getOrSetStart(req[r], cache, now))
    /\ UNCHANGED <<token, storage, routeFrame>>

\* The factory resolves: this.set(key, value, ttlSeconds); return value.
FactoryResolves ==
  \E r \in DOMAIN req :
    /\ req[r].pc = "computing"
    /\ cache' = MemoryCache_set(cache, req[r].args.key, req[r].args.value,
                                req[r].args.ttlSeconds, now)
    /\ Step(r, getOrSetReturn(req[r], TRUE))
    /\ UNCHANGED <<token, storage, routeFrame>>

\* The factory rejects: nothing is set.
FactoryRejects ==
  \E r \in DOMAIN req :
    /\ req[r].pc = "computing"
    /\ Step(r, getOrSetReturn(req[r], FALSE))
    /\ UNCHANGED <<cache, token, storage, routeFrame>>

NextGetOrSet ==
  \/ Tick
  \/ GetOrSetStart
  \/ FactoryResolves
  \/ FactoryRejects

SpecGetOrSet == InitGetOrSet /\ [][NextGetOrSet]_vars

\* The position in the log of the event of a kind of call r.
EventOf(r, kind) == CHOOSE c \in 1..Len(calls) : calls[c].req = r /\ calls[c].kind = kind
HasEvent(r, kind) == \E c \in 1..Len(calls) : calls[c].req = r /\ calls[c].kind = kind

\* Call r found its key missing.
FoundMissing(r) ==
  req[r].pc = "computing" \/ (req[r].pc = "done" /\ ~(req[r].outcome.status = "ok"
                                                       /\ req[r].outcome.cached))

\* Call r wrote the value of its factory.
Wrote(r) == req[r].pc = "done" /\ req[r].outcome.status = "ok" /\ ~req[r].outcome.cached

\* Calls r1 and r2 overlap: each started before the other returned.
Overlap(r1, r2) ==
  /\ HasEvent(r1, "factory") /\ HasEvent(r2, "factory")
  /\ HasEvent(r1, "return") => EventOf(r2, "factory") < EventOf(r1, "return")
  /\ HasEvent(r2, "return") => EventOf(r1, "factory") < EventOf(r2, "return")

\* C16: getOrSet is not atomic: every call that finds its key missing
\* invokes its factory, so two overlapping calls for one key that both find
\* it missing both invoke their factory; each call whose factory resolves
\* writes its value with set, which overwrites unconditionally, so that
\* after both have completed the entry holds the value and the expiry
\* written by the call that returned last.
C16_LastFinisherWins ==
  /\ \A r \in DOMAIN req :
       /\ FoundMissing(r) <=> HasEvent(r, "factory")
       /\ Cardinality({c \in CallsOf(r) : calls[c].kind = "factory"}) <= 1
  /\ \A r1, r2 \in DOMAIN req :
       ( /\ r1 # r2
         /\ req[r1].args.key = req[r2].args.key
         /\ Wrote(r1) /\ Wrote(r2)
         /\ Overlap(r1, r2)
         /\ EventOf(r1, "return") < EventOf(r2, "return") )
       => /\ req[r1].args.key \in DOMAIN cache
          /\ cache[req[r1].args.key] =
               [value |-> req[r2].args.value,
                expiry |-> req[r2].doneAt + req[r2].args.ttlSeconds * 1000]

\* Two calls for one key that both found it missing; the one that started
\* first returned last, later and with another time to live, and its value
\* is the entry.
C16_Witness ==
  \E r1, r2 \in DOMAIN req :
    /\ r1 # r2
    /\ req[r1].args.key = req[r2].args.key
    /\ Wrote(r1) /\ Wrote(r2)
    /\ Overlap(r1, r2)
    /\ EventOf(r2, "factory") < EventOf(r1, "factory")
    /\ EventOf(r1, "return") < EventOf(r2, "return")
    /\ req[r1].doneAt < req[r2].doneAt
    /\ req[r1].doneAt + req[r1].args.ttlSeconds * 1000
         > req[r2].doneAt + req[r2].args.ttlSeconds * 1000
    /\ cache[req[r1].args.key].value = req[r2].args.value

\* C17: if the uploaded bytes cannot be opened as an archive,
\* extractFilesFromZip fails with an error and returns no mapping, not even
\* of the entries that could be read, and the upload request ends in a
\* failure response with no call to the model and no stored analysis.
C17_InvalidArchiveFails ==
  \A r \in DOMAIN req :
    (req[r].op = "upload" /\ req[r].args.hasFile /\ ~archive.valid
       /\ req[r].pc # "start") =>
      /\ zipOut = [status |-> "error", message |-> ZipFailureMessage]
      /\ req[r].outcome = zipOut
      /\ req[r].pc = "done"
      /\ req[r].response.status = 500
      /\ req[r].response.message = "Failed to analyze repository"
      /\ req[r].response.details = ZipFailureMessage
      /\ LlmCalls = {}
      /\ storage.analyses = << >>
      /\ cache = << >>

\* An upload of a damaged archive that holds a.txt was answered.
C17_Witness ==
  \E r \in DOMAIN req :
    /\ req[r].op = "upload" /\ req[r].pc = "done"
    /\ req[r].args.hasFile
    /\ ~archive.valid
    /\ Len(archive.entries) > 0
    /\ req[r].response.status = 500

-----------------------------------------------------------------------------
(* The sampler called twice on one FileMapping, at different times.         *)

\* The mappings the two runs are given: those of the vocabulary with at
\* most two files, and mappings with more files than the ceiling.
TwiceInputs ==
  {m \in SmallMappings : Len(m) <= 2}
    \cup {GeneratedMapping(2, MaxGenerated - 2, nDirs, prioFirst) :
            nDirs \in {2, MaxGenerated + 1}, prioFirst \in BOOLEAN}

SampleArgs == [repo |-> << >>, path |-> << >>]

\* Mutant: a sampler whose result depends on the time of the call.
SamplerResult_DependsOnClock ==
  selectRepresentativeFiles(
    IF now = 0 THEN samplerFiles
    ELSE [i \in 1..Len(samplerFiles) |-> samplerFiles[Len(samplerFiles) + 1 - i]])

\* What this.selectRepresentativeFiles(files) returns when called now.
SamplerResult == selectRepresentativeFiles(samplerFiles)

InitSamplerTwice ==
  /\ CacheIdle
  /\ samplerFiles \in TwiceInputs
  /\ samplerOut = << >>
  /\ samplerPc = "start"
  /\ source = << >>
  /\ ZipIdle
  /\ remote = NoRemote
  /\ token = NoString
  /\ req = <<NewRequest("sample", SampleArgs), NewRequest("sample", SampleArgs)>>
  /\ calls = << >>
  /\ storage = NoStorage

\* A run of the sampler.
SamplerRun ==
  \E r \in DOMAIN req :
    /\ req[r].pc = "start"
    /\ req[r].op = "sample"
    /\ LET selectedFiles == SamplerResult
       IN  /\ samplerOut' = selectedFiles
           /\ Step(r, [req[r] EXCEPT !.pc = "done", !.selected = selectedFiles])
    /\ samplerPc' = "done"
    /\ UNCHANGED <<samplerFiles, cacheVars, source, zipVars, remote, token, storage>>

NextSamplerTwice ==
  \/ Tick
  \/ SamplerRun

SpecSamplerTwice == InitSamplerTwice /\ [][NextSamplerTwice]_vars

PathsOf(m) == {m[i].path : i \in 1..Len(m)}

\* The AnalysisResult the handler of r got from analyzeRepository, as it is
\* saved and answered.
ResultOf(r) ==
  IF req[r].pc = "saving" THEN req[r].pending.record ELSE req[r].response.body

\* C20: in every AnalysisResult analyzedFiles is the number of files of the
\* selected set and totalFiles the number of keys of the FileMapping; every
\* selected path is a key of the FileMapping and no path is selected twice,
\* so that analyzedFiles <= totalFiles; the saved analysis carries the same
\* numbers.
C20_FileCounts ==
  \A r \in DOMAIN req :
    (req[r].pc = "saving"
       \/ (req[r].op \in {"route", "upload"} /\ req[r].pc = "done"
             /\ req[r].response.status = 200)) =>
      LET files == req[r].outcome.files
          selectedFiles == selectRepresentativeFiles(files)
      IN  /\ ResultOf(r).analyzedFiles = Cardinality(PathsOf(selectedFiles))
          /\ ResultOf(r).totalFiles = Cardinality(PathsOf(files))
          /\ Len(selectedFiles) = Cardinality(PathsOf(selectedFiles))
          /\ PathsOf(selectedFiles) \subseteq PathsOf(files)
          /\ ResultOf(r).analyzedFiles <= ResultOf(r).totalFiles
          /\ \A i \in 1..Len(storage.analyses) :
               /\ storage.analyses[i].analyzedFiles = ResultOf(r).analyzedFiles
               /\ storage.analyses[i].totalFiles = ResultOf(r).totalFiles

\* An answered analysis of a mapping of which a part was selected.
C20_Witness ==
  \E r \in DOMAIN req :
    /\ req[r].pc = "done"
    /\ req[r].response.status = 200
    /\ req[r].response.body.analyzedFiles < req[r].response.body.totalFiles
    /\ Len(storage.analyses) = 1

-----------------------------------------------------------------------------
(* openai-api.ts: createRepoStructure, called by analyzeRepository with     *)
(* Object.keys(files).sort().                                               *)
(* The nested object is kept flat: one property [parent, key, file] per     *)
(* key of each object, in the order the properties were created; parent is  *)
(* the list of the keys that lead to the object from the root.  No file of  *)
(* the model is also a directory, and no segment names a property of        *)
(* Object.prototype.                                                        *)

\* How many paths a repository of this specification holds at most.
MaxListed == 3

RECURSIVE LexLess(_, _)
\* The default order of Array.prototype.sort on strings: by code unit.
LexLess(s, t) ==
  IF t = << >> THEN FALSE
  ELSE IF s = << >> THEN TRUE
  ELSE IF s[1] # t[1] THEN s[1] < t[1]
  ELSE LexLess(Tail(s), Tail(t))

RECURSIVE sortStrings(_)
\* Object.keys(files).sort(), of a set of distinct strings.
sortStrings(S) ==
  IF S = {} THEN << >>
  ELSE LET least == CHOOSE s \in S : \A t \in S : t = s \/ LexLess(s, t)
       IN  <<least>> \o sortStrings(S \ {least})

RECURSIVE decimalValue(_)
\* The number a string of digits denotes.
decimalValue(key) ==
  IF key = << >> THEN 0
  ELSE decimalValue(SubSeq(key, 1, Len(key) - 1)) * 10 + (key[Len(key)] - 48)

\* 2^32 - 2, in decimal.
MaxArrayIndex == Str(<<"4","2","9","4","9","6","7","2","9","4">>)

\* An array index: the canonical decimal string of an integer in 0..2^32-2.
IsArrayIndex(key) ==
  /\ Len(key) \in 1..10
  /\ \A i \in 1..Len(key) : key[i] \in 48..57
  /\ key[1] = 48 => Len(key) = 1
  /\ Len(key) = 10 => ~LexLess(MaxArrayIndex, key)

RECURSIVE ascendingIndices(_)
\* Array-index keys in ascending numeric order.
ascendingIndices(K) ==
  IF K = {} THEN << >>
  ELSE LET least == CHOOSE k \in K : \A j \in K : decimalValue(k) <= decimalValue(j)
       IN  <<least>> \o ascendingIndices(K \ {least})

\* The properties of the object at parent.
propertiesOf(structure, parent) ==
  SelectSeq(structure, LAMBDA pr : pr.parent = parent)

\* Object.keys(obj): the array-index keys in ascending numeric order, then
\* the other keys in the order of their creation.
ownKeys(structure, parent) ==
  LET props == propertiesOf(structure, parent)
      names == [i \in 1..Len(props) |-> props[i].key]
  IN  ascendingIndices({names[i] : i \in {j \in 1..Len(names) : IsArrayIndex(names[j])}})
      \o SelectSeq(names, LAMBDA k : ~IsArrayIndex(k))

hasProperty(structure, parent, key) ==
  \E i \in 1..Len(structure) : structure[i].parent = parent /\ structure[i].key = key

\* obj[key] === true
isFile(structure, parent, key) ==
  \E i \in 1..Len(structure) :
    structure[i].parent = parent /\ structure[i].key = key /\ structure[i].file

RECURSIVE addParts(_, _, _)
\* The for loop over parts from index i on: current[part] = true for the
\* last part, and for the others current[part] = {} where there is none,
\* then current = current[part].
addParts(structure, parts, i) ==
  LET parent == SubSeq(parts, 1, i - 1)
      part == parts[i]
  IN  IF i = Len(parts)
        THEN IF hasProperty(structure, parent, part)
               THEN [k \in 1..Len(structure) |->
                       IF structure[k].parent = parent /\ structure[k].key = part
                         THEN [structure[k] EXCEPT !.file = TRUE]
                         ELSE structure[k]]
               ELSE Append(structure, [parent |-> parent, key |-> part, file |-> TRUE])
        ELSE addParts(IF hasProperty(structure, parent, part)
                        THEN structure
                        ELSE Append(structure,
                                    [parent |-> parent, key |-> part, file |-> FALSE]),
                      parts, i + 1)

RECURSIVE buildStructure(_, _)
\* filePaths.forEach(filePath => { const parts = filePath.split('/'); ... })
buildStructure(filePaths, structure) ==
  IF filePaths = << >> THEN structure
  ELSE buildStructure(Tail(filePaths), addParts(structure, Segments(filePaths[1]), 1))

RECURSIVE spacing(_)
\* '  '.repeat(indent)
spacing(indent) == IF indent = 0 THEN << >> ELSE <<32, 32>> \o spacing(indent - 1)

NewLine == <<10>>

fileLine(key, indent) == spacing(indent) \o Str(<<"-"," ">>) \o key \o NewLine
directoryLine(key, indent) == spacing(indent) \o Str(<<"+"," ">>) \o key \o Str(<<"/">>) \o NewLine

RECURSIVE stringifyKeys(_, _, _, _)
\* The body of Object.keys(obj).forEach in stringifyStructure, for the keys
\* that are left.
stringifyKeys(structure, parent, keys, indent) ==
  IF keys = << >> THEN << >>
  ELSE LET key == keys[1]
       IN  (IF isFile(structure, parent, key)
              THEN fileLine(key, indent)
              ELSE directoryLine(key, indent)
                   \o stringifyKeys(structure, Append(parent, key),
                                    ownKeys(structure, Append(parent, key)), indent + 1))
           \o stringifyKeys(structure, parent, Tail(keys), indent)

stringifyStructure(structure) ==
  stringifyKeys(structure, << >>, ownKeys(structure, << >>), 0)

createRepoStructure(filePaths) == stringifyStructure(buildStructure(filePaths, << >>))

\* The paths the repositories are made of.
StructureVocabulary ==
  { Str(<<"a","/","b",".","j","s">>), Str(<<"a","/","c",".","j","s">>), Str(<<"d",".","j","s">>), Str(<<"1","0","/","a",".","j","s">>), Str(<<"9","/","b",".","j","s">>),
    Str(<<"s","r","c","/","l","i","b","/","x",".","t","s">>), Str(<<"s","r","c","/","y",".","t","s">>), Str(<<"R","E","A","D","M","E",".","m","d">>) }

StructureArgs(filePaths) == [filePaths |-> filePaths, repo |-> << >>, path |-> << >>]

InitStructure ==
  /\ CacheIdle
  /\ SamplerIdle
  /\ ZipIdle
  /\ source = << >>
  /\ remote = NoRemote
  /\ token = NoString
  /\ \E S \in SUBSET StructureVocabulary :
       /\ Cardinality(S) \in 1..MaxListed
       /\ req = <<NewRequest("structure", StructureArgs(sortStrings(S)))>>
  /\ calls = << >>
  /\ storage = NoStorage

\* const repoStructure = this.createRepoStructure(fileList)
CreateRepoStructure ==
  \E r \in DOMAIN req :
    /\ req[r].pc = "start"
    /\ req[r].op = "structure"
    /\ Step(r, [req[r] EXCEPT
                  !.pc = "done",
                  !.outcome = [status |-> "ok",
                               value |-> createRepoStructure(req[r].args.filePaths)]])
    /\ UNCHANGED <<cache, token, storage, routeFrame>>

NextStructure == CreateRepoStructure

SpecStructure == InitStructure /\ [][NextStructure]_vars

\* The names in the order of their first occurrence.
RECURSIVE firstOccurrences(_, _)
firstOccurrences(names, seen) ==
  IF names = << >> THEN << >>
  ELSE (IF names[1] \in seen THEN << >> ELSE <<names[1]>>)
       \o firstOccurrences(Tail(names), seen \cup {names[1]})

RECURSIVE renderLevel(_, _, _)
\* The rendering the statement describes, of the paths (as lists of
\* segments) below one directory: for each name in the order of its first
\* occurrence, the file, or the directory followed by what is below it.
renderLevel(paths, names, indent) ==
  IF names = << >> THEN << >>
  ELSE LET name == names[1]
           below == SelectSeq(paths, LAMBDA p : p[1] = name /\ Len(p) > 1)
           tails == [i \in 1..Len(below) |-> Tail(below[i])]
       IN  (IF below = << >>
              THEN fileLine(name, indent)
              ELSE directoryLine(name, indent)
                   \o renderLevel(tails,
                                  firstOccurrences([i \in 1..Len(tails) |-> tails[i][1]], {}),
                                  indent + 1))
           \o renderLevel(paths, Tail(names), indent)

renderAsStated(filePaths) ==
  LET paths == [i \in 1..Len(filePaths) |-> Segments(filePaths[i])]
  IN  renderLevel(paths, firstOccurrences([i \in 1..Len(paths) |-> paths[i][1]], {}), 0)

\* C21: the rendering of a sorted path list emits every directory once as
\* "+ name/" and every file once as "- name", indented by two spaces per
\* depth, a directory's children immediately after it, and siblings in the
\* order of their first occurrence in the sorted list; [a/b.js, a/c.js,
\* d.js] gives a/ with b.js and c.js, then d.js.
C21_StructureRendering ==
  \A r \in DOMAIN req :
    (req[r].op = "structure" /\ req[r].pc = "done") =>
      /\ req[r].outcome.value = renderAsStated(req[r].args.filePaths)
      /\ req[r].args.filePaths = <<Str(<<"a","/","b",".","j","s">>), Str(<<"a","/","c",".","j","s">>), Str(<<"d",".","j","s">>)>>
           => req[r].outcome.value =
                Str(<<"+"," ","a","/">>) \o NewLine \o Str(<<" "," ","-"," ","b",".","j","s">>) \o NewLine
                \o Str(<<" "," ","-"," ","c",".","j","s">>) \o NewLine \o Str(<<"-"," ","d",".","j","s">>) \o NewLine

-----------------------------------------------------------------------------
\* What the first pass of the last call of the sampler selected.
PassOneSelection == firstPass(samplerFiles)

\* C22: pass 1 adds at most one path per priority pattern: for each pattern
\* in order it adds the first path, in input order, that matches and is not
\* yet selected, so that after pass 1 the selected set has at most as many
\* entries as there are priority patterns (11).
C22_OnePerPattern ==
  samplerPc = "done" =>
    /\ Len(PassOneSelection) <= NumPriorityPatterns
    /\ ObjKeys(PassOneSelection) = ObjKeys(firstPass_FirstMatchOnly(samplerFiles))
    /\ \A k \in 1..Len(PassOneSelection) : ObjHas(samplerOut, PassOneSelection[k].path)

\* C23: pass 2 repeats its sweep over the directories until the ceiling is
\* reached or nothing is left: when selection ends, either the selected set
\* holds 15 files or every path of the FileMapping is selected.
C23_SweepsUntilFull ==
  samplerPc = "done" =>
    \/ Len(samplerOut) = MAX_SELECTED_FILES
    \/ \A i \in 1..Len(samplerFiles) : ObjHas(samplerOut, samplerFiles[i].path)

-----------------------------------------------------------------------------
(* Two requests to POST /api/analyze/github whose handlers interleave at    *)
(* their awaits: every order of the steps of the two, one after the other   *)
(* included.                                                                *)

\* The two requests of a run: one without credentials and one with a token
\* in its header, or one with a token in its header and one with the token of
\* its session.
OverlapPairs ==
  { << RouteArgs(TRUE, PlainUrl, DemoName, NoString, NoUser),
       RouteArgs(TRUE, DotGitUrl, << >>, BearerA, NoUser) >>,
    << RouteArgs(TRUE, DotGitUrl, << >>, BearerA, NoUser),
       RouteArgs(TRUE, PlainUrl, DemoName, NoString, SignedInUser) >> }

\* The repository both requests name: one file.
OverlapSource == <<Plain(Str(<<"a",".","t","x","t">>))>>

InitRouteOverlap ==
  /\ CacheIdle
  /\ SamplerIdle
  /\ ZipIdle
  /\ source = OverlapSource
  /\ remote = RepositoryOf(source)
  /\ token = NoString
  /\ \E pair \in OverlapPairs :
       req = <<NewRequest("route", pair[1]), NewRequest("route", pair[2])>>
  /\ calls = << >>
  /\ \E kind \in {"mem", "db"} : storage = [NoStorage EXCEPT !.kind = kind]

NextRouteOverlap ==
  \/ RouteStart
  \/ ListResponse
  \/ ContentResponse
  \/ TechnicalAnalysisResponse
  \/ UserManualResponse
  \/ SaveResponse

SpecRouteOverlap == InitRouteOverlap /\ [][NextRouteOverlap]_vars

\* The token a request supplies: its Authorization header, else the GitHub
\* token of its session, else none.
SuppliedToken(args) == tokenAfterRequest(args, NoString)

\* The calls to the remote repository.
RemoteCalls == {c \in 1..Len(calls) : calls[c].kind \in {"list", "content"}}

\* C24: every remote repository call issued on behalf of a request carries
\* exactly the token that request supplied, and no Authorization header when
\* the request supplied none, under any sequence or interleaving of
\* requests.
C24_OwnTokenOnly ==
  \A c \in RemoteCalls : calls[c].token = SuppliedToken(req[calls[c].req].args)

-----------------------------------------------------------------------------
(* Requests to POST /api/analyze/github one after another, while the clock  *)
(* advances and the remote repository may start to refuse a listing.        *)

\* The answers a listing is refused with.
RefusedWith == {NotFound, Http(429, TooManyBody), Http(500, ServerErrorBody)}

InitRouteFailures ==
  /\ CacheIdle
  /\ SamplerIdle
  /\ ZipIdle
  /\ source = ListingFailureSource
  /\ remote = RepositoryOf(source)
  /\ token = NoString
  /\ req = <<NewRequest("route", TimedRequests[1])>>
  /\ calls = << >>
  /\ storage = NoStorage

\* From now on the listing of one directory fails.
RemoteBreaks ==
  /\ remote = RepositoryOf(source)
  /\ \E d \in {<< >>, SrcDir}, response \in RefusedWith :
       remote' = WithListing(remote, d, response)
  /\ UNCHANGED <<cacheVars, samplerVars, source, zipVars, token, req, calls, storage>>

\* Time passes, to the first instant at which what was cached at the start
\* of the run has expired.
FailureTick ==
  /\ now <= AnalysisTtl
  /\ now' = AnalysisTtl + 1
  /\ UNCHANGED <<cache, cacheRet, lastSet, nonCacheVars>>

NextRouteFailures ==
  \/ RemoteBreaks
  \/ FailureTick
  \/ ArriveInTurn
  \/ RouteStart
  \/ ListResponse
  \/ ContentResponse
  \/ TechnicalAnalysisResponse
  \/ UserManualResponse

SpecRouteFailures == InitRouteFailures /\ [][NextRouteFailures]_vars

\* A listing call of request r failed.
ListingFailed(r) == req[r].listFailures > 0

\* A call of request r to the model failed.
LlmFailed(r) == \E i \in 1..Len(req[r].llm) : ~LlmOutcomes[req[r].llm[i]].ok

\* The cache holds nothing it did not hold when request r started, and
\* every entry that had not expired when r started is still there.
CacheAsBefore(r) ==
  /\ \A k \in DOMAIN cache :
       k \in DOMAIN req[r].before.cache /\ cache[k] = req[r].before.cache[k]
  /\ \A k \in DOMAIN req[r].before.cache :
       req[r].startedAt <= req[r].before.cache[k].expiry => k \in DOMAIN cache

\* C25: failure of an aggregate step is atomic for the request: if a
\* directory-listing call or one of the two calls to the model fails during
\* a /api/analyze/github request, no partial result is returned (a failed
\* listing makes the fetch fail without files), the request ends in an
\* error response, no analysis record is stored, and the cache is as it was
\* before the request: no entry is added or changed, and every entry that
\* was still valid is kept (an entry that had already expired may have been
\* dropped by the lookup).
C25_FailureIsAtomic ==
  \A r \in DOMAIN req :
    (req[r].op = "route" /\ req[r].pc = "done" /\ (ListingFailed(r) \/ LlmFailed(r))) =>
      /\ req[r].response.status \in {429, 500}
      /\ "body" \notin DOMAIN req[r].response
      /\ ListingFailed(r) => /\ req[r].outcome.status = "error"
                             /\ req[r].llm = << >>
      /\ Len(storage.analyses) = Cardinality({x \in DOMAIN req : Computed(x)})
      /\ r = Len(req) => /\ storage.analyses = req[r].before.analyses
                         /\ CacheAsBefore(r)

\* A request that failed at a call to the model although the cache held an
\* (expired) entry and the storage a record, and a later request that failed
\* at the listing of a sub-directory after the listing of the root.
C25_Witness ==
  \E r2, r3 \in DOMAIN req :
    /\ r2 < r3
    /\ req[r3].pc = "done"
    /\ LlmFailed(r2) /\ ~ListingFailed(r2)
    /\ DOMAIN req[r2].before.cache # {}
    /\ req[r2].before.analyses # << >>
    /\ ListingFailed(r3)
    /\ Cardinality({c \in CallsOf(r3) : calls[c].kind = "list"}) = 2

\* The statement as written: the cache after the failed request is the
\* cache before it, entry for entry.
C25_AsWritten ==
  \A r \in DOMAIN req :
    (req[r].op = "route" /\ req[r].pc = "done" /\ (ListingFailed(r) \/ LlmFailed(r))) =>
      /\ req[r].response.status \in {429, 500}
      /\ Len(storage.analyses) = Cardinality({x \in DOMAIN req : Computed(x)})
      /\ r = Len(req) => /\ storage.analyses = req[r].before.analyses
                         /\ cache = req[r].before.cache

-----------------------------------------------------------------------------
\* Request r is an upload whose archive multer stored in a temporary file.
StoredTempFile(r) == req[r].op = "upload" /\ req[r].args.hasFile

\* The attempts of request r to delete its temporary file.
CleanupAttempts(r) == {c \in CallsOf(r) : calls[c].kind \in {"unlink", "unlinkFailed"}}

\* C26: for every upload request that stored a temporary archive file, an
\* attempt to delete that file is made on every exit path of the handler,
\* success or failure (no analyzable files, invalid archive, LLM error,
\* storage error), and a failed deletion never changes the response: the
\* answer is the one for no analyzable files or the saved analysis.
C26_CleanupOnEveryExit ==
  \A r \in DOMAIN req :
    (StoredTempFile(r) /\ req[r].pc = "done") =>
      /\ CleanupAttempts(r) # {}
      /\ (\E c \in CleanupAttempts(r) : calls[c].kind = "unlinkFailed") =>
           \/ NoFilesResponse(r)
           \/ /\ req[r].response.status = 200
              /\ \E i \in 1..Len(storage.analyses) :
                   req[r].response.body = uploadResponseData(storage.analyses[i])

-----------------------------------------------------------------------------
(* fetchRepositoryFiles on repositories with directories inside             *)
(* directories.                                                             *)

\* Files a repository of this specification holds at most.
MaxTreeFiles == 3

TreeVocabulary ==
  { Plain(Str(<<"a",".","t","x","t">>)), Plain(Str(<<"s","r","c","/","m","a","i","n",".","t","s">>)), Plain(Str(<<"s","r","c","/","l","i","b","/","x",".","t","s">>)),
    Plain(Str(<<"s","r","c","/","l","i","b","/","y",".","t","s">>)), Plain(Str(<<"d","o","c","s","/","b","i","g",".","m","d">>)) }

InitFetchTree ==
  /\ CacheIdle
  /\ SamplerIdle
  /\ ZipIdle
  /\ storage = NoStorage
  /\ source \in {q \in DistinctSeqs(TreeVocabulary, MaxTreeFiles) :
                    Len(q) > 0 /\ DistinctPaths(q)}
  /\ remote = RepositoryOf(source)
  /\ GitHubNotStarted("fetchRepositoryFiles", NoArgs)

NextFetchTree ==
  \/ StartFetchRepositoryFiles
  \/ ListResponse
  \/ ContentResponse

SpecFetchTree == InitFetchTree /\ [][NextFetchTree]_vars

\* The paths of the calls of a kind that request r made, in the order of
\* the calls.
CallPaths(log, r, kind) ==
  LET mine == SelectSeq(log, LAMBDA c : c.req = r /\ c.kind = kind)
  IN  [i \in 1..Len(mine) |-> mine[i].path]

\* The remote calls of request r, in order.
RemoteCallsOf(log, r) ==
  SelectSeq(log, LAMBDA c : c.req = r /\ c.kind \in {"list", "content"})

\* The position of the entry of directory d that p lies in or is.
EntryPosition(d, p) ==
  CHOOSE i \in 1..Len(remote.tree[d].entries) :
    remote.tree[d].entries[i].path = ChildEntry(d, p).path

\* File x comes before file y depth-first: in the listing of the deepest
\* directory that holds both, the entry towards x stands before the entry
\* towards y.
DepthFirstBefore(x, y) ==
  LET common == {d \in Ancestors(x) \cap Ancestors(y) : IsUnder(d, x) /\ IsUnder(d, y)}
      deepest == CHOOSE d \in common : \A e \in common : Len(e) <= Len(d)
  IN  EntryPosition(deepest, x) < EntryPosition(deepest, y)

\* The listing of request r is over.
Listed(r) ==
  req[r].pc = "fetching" \/ (req[r].pc = "fetched" /\ req[r].outcome.status = "ok")

\* What holds of the calls made so far.
SequentialSoFar(r) ==
  LET lists == CallPaths(calls, r, "list")
      contents == CallPaths(calls, r, "content")
      all == RemoteCallsOf(calls, r)
      leaves == req[r].filteredFiles
  IN  /\ \A i, j \in 1..Len(lists) : i # j => lists[i] # lists[j]
      /\ \A i \in 1..Len(lists) : lists[i] \in DOMAIN remote.tree
      /\ \A i, j \in 1..Len(all) : (all[i].kind = "content" /\ all[j].kind = "list") => j < i
      /\ req[r].pending.kind \in {"list", "content"} =>
           /\ all # << >>
           /\ all[Len(all)].kind = req[r].pending.kind
           /\ all[Len(all)].path = req[r].pending.path
      /\ Listed(r) =>
           /\ {lists[i] : i \in 1..Len(lists)} = DOMAIN remote.tree
           /\ {leaves[i].path : i \in 1..Len(leaves)}
                = {p \in DOMAIN remote.blobs : fetchFilter([path |-> p,
                                                             name |-> ChildEntry(<< >>, p).name])}
           /\ \A i, j \in 1..Len(leaves) :
                i < j => DepthFirstBefore(leaves[i].path, leaves[j].path)
           /\ Len(contents) <= Len(leaves)
           /\ \A i \in 1..Len(contents) : contents[i] = leaves[i].path
           /\ req[r].pc = "fetched" => Len(contents) = Len(leaves)

\* What holds of a step: a request makes at most one call in a step, and
\* only when it starts or when the call it was waiting for is answered.
OneCallAtATime(r) ==
  LET was == RemoteCallsOf(calls, r)
      is == RemoteCallsOf(calls', r)
  IN  /\ Len(is) <= Len(was) + 1
      /\ Len(is) = Len(was) + 1 =>
           /\ req[r].pc = "start" \/ req[r].pending.kind \in {"list", "content"}
           /\ req'[r].pending.kind = is[Len(is)].kind
      /\ (req[r].pending.kind \in {"list", "content"} /\ req'[r] # req[r]) =>
           \/ req'[r].pending.kind = "none"
           \/ Len(is) = Len(was) + 1

\* C27: the fetcher is strictly sequential and depth-first:
\* listRepositoryContents issues exactly one listing call per directory, at
\* most one remote call of a request is outstanding at any time, the
\* returned leaves are in depth-first order (the files of a sub-directory
\* appear at the position of that directory in its parent's listing), and
\* the file contents are fetched one at a time in that order.
C27_SequentialDepthFirst ==
  /\ [](\A r \in DOMAIN req : req[r].op = "fetchRepositoryFiles" => SequentialSoFar(r))
  /\ [][\A r \in DOMAIN req : req[r].op = "fetchRepositoryFiles" => OneCallAtATime(r)]_vars

\* A fetch that returned the three files of a repository whose first entry
\* is a directory with a sub-directory listed before a file of its own, and
\* whose last entry is a file of the root.
C27_Witness ==
  \E r \in DOMAIN req :
    /\ req[r].op = "fetchRepositoryFiles"
    /\ req[r].pc = "fetched"
    /\ CallPaths(calls, r, "list") = << << >>, Str(<<"s","r","c">>), Str(<<"s","r","c","/","l","i","b">>) >>
    /\ CallPaths(calls, r, "content") = << Str(<<"s","r","c","/","l","i","b","/","x",".","t","s">>), Str(<<"s","r","c","/","m","a","i","n",".","t","s">>), Str(<<"a",".","t","x","t">>) >>
    /\ Len(req[r].outcome.files) = 3

-----------------------------------------------------------------------------
\* The tokens the files of the analysis that request w computed were
\* fetched with.
FetchTokens(w) == {calls[c].token : c \in RemoteCalls \cap CallsOf(w)} \ {NoString}

\* C28: the response to a /api/analyze/github request does not depend on
\* credentials supplied by other requesters: an analysis computed from files
\* fetched with one requester's token is never returned to a requester who
\* supplied no token or a different token.
C28_NoForeignCredentials ==
  \A r, w \in DOMAIN req :
    ( /\ Succeeded(r)
      /\ Computed(w)
      /\ req[r].response.body.id = req[w].response.body.id )
    => FetchTokens(w) \subseteq {SuppliedToken(req[r].args)}

-----------------------------------------------------------------------------
\* The calls of a kind that request r made.
KindCallsOf(r, kind) == {c \in CallsOf(r) : calls[c].kind = kind}

\* The position in the log of the answer of a request that ran the pipeline
\* to its end.
AnswerOf(r) == CHOOSE c \in CallsOf(r) : calls[c].kind = "answer"

\* The records stored with the id that request r answered with.
RecordsOf(r) ==
  {i \in 1..Len(storage.analyses) : storage.analyses[i].id = req[r].response.body.id}

\* C29: when two /api/analyze/github requests for the same normalized URL
\* overlap so that both miss the cache, each runs the full pipeline (its own
\* remote fetch and its own LLM calls), and each that succeeds stores its
\* own analysis record with a distinct id; when both have succeeded the
\* cache entry for the URL is the response of the request that finished
\* last.
C29_BothRunLastWins ==
  \A r1, r2 \in DOMAIN req :
    ( /\ r1 # r2
      /\ req[r1].op = "route" /\ req[r2].op = "route"
      /\ req[r1].pc = "done" /\ req[r2].pc = "done"
      /\ SameRepository(r1, r2)
      /\ RanPipeline(r1) /\ RanPipeline(r2) )
    => /\ \A r \in {r1, r2} :
            /\ Cardinality(KindCallsOf(r, "list")) = 1
            /\ Cardinality(KindCallsOf(r, "content")) = Len(source)
            /\ Cardinality(KindCallsOf(r, "technicalAnalysis")) = 1
            /\ LlmOutcomes[req[r].llm[1]].ok =>
                 Cardinality(KindCallsOf(r, "userManual")) = 1
            /\ Computed(r) =>
                 /\ Len(req[r].llm) = 2
                 /\ Cardinality(RecordsOf(r)) = 1
       /\ (Computed(r1) /\ Computed(r2)) =>
            /\ req[r1].response.body.id # req[r2].response.body.id
            /\ Len(storage.analyses) = 2
            /\ AnswerOf(r1) < AnswerOf(r2) =>
                 /\ routeCacheKey(req[r1]) \in DOMAIN cache
                 /\ cache[routeCacheKey(req[r1])].value = req[r2].response.body

\* Two requests under two spellings of one URL both missed the cache and
\* both succeeded; the one that started first finished last, and its
\* response is the cache entry.
C29_Witness ==
  \E r1, r2 \in DOMAIN req :
    /\ r1 # r2
    /\ req[r1].args.repositoryUrl # req[r2].args.repositoryUrl
    /\ Computed(r1) /\ Computed(r2)
    /\ \A c1 \in KindCallsOf(r1, "list"), c2 \in KindCallsOf(r2, "list") : c2 < c1
    /\ AnswerOf(r1) < AnswerOf(r2)
    /\ cache[routeCacheKey(req[r1])].value = req[r2].response.body
    /\ cache[routeCacheKey(req[r1])].value # req[r1].response.body

-----------------------------------------------------------------------------
(* part_003: GET /api/analyses, next to POST /api/analyze/github.           *)

\* The readings of Date.now(): the start, and 1 ms after the last instant
\* at which a list cached at the start is served.
HistoryInstants == {0, 300 * 1000 + 1}

HistoryArgs(user) == [user |-> user, repo |-> << >>, path |-> << >>]

\* The history is asked for, signed in or not.
HistoryAsked ==
  { NewRequest("analyses", HistoryArgs(SignedInUser)),
    NewRequest("analyses", HistoryArgs(NoUser)) }

\* An analysis is asked for, signed in or not.
AnalysisAsked ==
  { NewRequest("route", RouteArgs(TRUE, PlainUrl, DemoName, NoString, SignedInUser)),
    NewRequest("route", RouteArgs(TRUE, PlainUrl, DemoName, NoString, NoUser)) }

\* The requests of a run, in their order of arrival: a first of either
\* kind, then an analysis, then the history.
HistoryTurns == << HistoryAsked \cup AnalysisAsked, AnalysisAsked, HistoryAsked >>

\* const userId = req.isAuthenticated() ? req.user.id : null, where 0 is
\* null.
historyUserId(q) == IF q.args.user.authenticated THEN q.args.user.id ELSE 0

\* userId ? `analyses:user:${userId}` : 'analyses:latest'
analysesCacheKey(q) ==
  IF historyUserId(q) # 0
    THEN Str(<<"a","n","a","l","y","s","e","s",":","u","s","e","r",":">>) \o decimal(historyUserId(q))
    ELSE Str(<<"a","n","a","l","y","s","e","s",":","l","a","t","e","s","t">>)

\* The orders a query may return the records at the positions S in: by
\* createdAt, latest first. MemStorage sorts the values of its map, which
\* keeps records of one instant in the order of their insertion; the
\* database leaves the order of such records open.
latestFirst(S) ==
  {f \in [1..Cardinality(S) -> S] :
     /\ \A i, j \in 1..Cardinality(S) : i # j => f[i] # f[j]
     /\ \A i, j \in 1..Cardinality(S) :
          i < j => /\ storage.analyses[f[i]].createdAt >= storage.analyses[f[j]].createdAt
                   /\ (storage.kind = "mem"
                         /\ storage.analyses[f[i]].createdAt = storage.analyses[f[j]].createdAt)
                        => f[i] < f[j]}

\* storage.getRepositoryAnalysesByUser(userId) or, signed out,
\* storage.getLatestRepositoryAnalyses(10): the positions of the records
\* the query returns, in each order it may return them in.
historyQuery(q) ==
  IF historyUserId(q) # 0
    THEN latestFirst({i \in 1..Len(storage.analyses) :
                        storage.analyses[i].userId = historyUserId(q)})
    ELSE {SubSeq(f, 1, IF Len(f) < 10 THEN Len(f) ELSE 10) :
            f \in latestFirst(1..Len(storage.analyses))}

\* analyses.map(analysis => ({...})): the simplified response format.
historyResponse(f) ==
  [i \in 1..Len(f) |->
     [id |-> storage.analyses[f[i]].id,
      repositoryName |-> storage.analyses[f[i]].repositoryName,
      repositoryUrl |-> storage.analyses[f[i]].repositoryUrl,
      createdAt |-> storage.analyses[f[i]].createdAt,
      analyzedFiles |-> storage.analyses[f[i]].analyzedFiles,
      totalFiles |-> storage.analyses[f[i]].totalFiles]]

\* The handler after the query: cache.set(cacheKey, response, 300) and the
\* answer.
historyAnswer(r, q, f) ==
  /\ cache' = MemoryCache_set(MemoryCache_get_store(cache, analysesCacheKey(q), now),
                              analysesCacheKey(q), historyResponse(f), 300, now)
  /\ Step(r, Respond(q, [status |-> 200, body |-> historyResponse(f), cached |-> FALSE]))

\* The handler to its answer or to the await of the database: a cached list
\* is the answer (an empty list too: an array is truthy); MemStorage answers
\* the query without a turn of the event loop.
AnalysesStart ==
  \E r \in DOMAIN req :
    /\ req[r].pc = "start"
    /\ req[r].op = "analyses"
    /\ LET q == req[r]
           key == analysesCacheKey(q)
       IN  IF MemoryCache_get_hit(cache, key, now)
             THEN /\ cache' = cache
                  /\ Step(r, Respond(q, [status |-> 200,
                                         body |-> MemoryCache_get_value(cache, key, now),
                                         cached |-> TRUE]))
           ELSE IF storage.kind = "mem"
             THEN \E f \in historyQuery(q) : historyAnswer(r, q, f)
           ELSE /\ cache' = MemoryCache_get_store(cache, key, now)
                /\ Step(r, [q EXCEPT !.pc = "querying",
                                     !.pending = [kind |-> "query", path |-> << >>]])
    /\ UNCHANGED <<token, storage, routeFrame>>

\* The query of the database returns or fails; a failure goes to the catch
\* of the handler.
AnalysesQueryResponse ==
  \E r \in DOMAIN req, ok \in BOOLEAN :
    /\ req[r].pc = "querying"
    /\ IF ok
         THEN \E f \in historyQuery(req[r]) : historyAnswer(r, req[r], f)
         ELSE /\ cache' = cache
              /\ Step(r, Respond(req[r], [status |-> 500,
                                          message |-> "Failed to fetch analysis history",
                                          details |-> StorageErrorMessage]))
    /\ UNCHANGED <<token, storage, routeFrame>>

InitHistory ==
  /\ CacheIdle
  /\ SamplerIdle
  /\ ZipIdle
  /\ source = TimedSource
  /\ remote = RepositoryOf(source)
  /\ token = NoString
  /\ \E first \in HistoryTurns[1] : req = <<first>>
  /\ calls = << >>
  /\ \E kind \in {"mem", "db"} : storage = [NoStorage EXCEPT !.kind = kind]

HistoryTick ==
  /\ \E t \in HistoryInstants : t > now /\ now' = t
  /\ UNCHANGED <<cache, cacheRet, lastSet, nonCacheVars>>

\* A request arrives when the requests before it are answered.
ArriveHistory ==
  /\ Len(req) < Len(HistoryTurns)
  /\ \A r \in DOMAIN req : req[r].pc = "done"
  /\ \E next \in HistoryTurns[Len(req) + 1] : req' = Append(req, next)
  /\ UNCHANGED <<cache, token, calls, storage, routeFrame>>

NextHistory ==
  \/ HistoryTick
  \/ ArriveHistory
  \/ AnalysesStart
  \/ AnalysesQueryResponse
  \/ RouteStart
  \/ ListResponse
  \/ ContentResponse
  \/ TechnicalAnalysisResponse
  \/ UserManualResponse
  \/ SaveResponse

SpecHistory == InitHistory /\ [][NextHistory]_vars

\* Request g asked for the history and was answered with a list.
HistoryAnswered(g) ==
  /\ req[g].op = "analyses"
  /\ req[g].pc = "done"
  /\ req[g].response.status = 200

\* Request p stored an analysis for the signed-in user who sent it.
StoredFor(p) ==
  /\ req[p].op = "route"
  /\ Computed(p)
  /\ req[p].args.user.authenticated

\* C30: the analysis history is fresh: after an analysis has been stored
\* for a user by /api/analyze/github, every later GET /api/analyses by that
\* user returns a list that contains that analysis, also when a list for
\* that user was cached before the analysis was stored.
C30_HistoryIsFresh ==
  \A p, g \in DOMAIN req :
    ( /\ p < g
      /\ StoredFor(p)
      /\ HistoryAnswered(g)
      /\ req[g].args.user = req[p].args.user )
    => \E i \in 1..Len(req[g].response.body) :
         req[g].response.body[i].id = req[p].response.body.id

=============================================================================
